---- MODULE Spec2Model ----
(***************************************************************************)
(* Financial-Analysis-Forge: the income-statement extraction pipeline      *)
(* (main/handlers/income_statement_table.py, main/handlers/                *)
(* income_statement.py), the stores it writes (main/globals/app_state.py,  *)
(* main/core/global_state.py) and the readers of the presentation layer    *)
(* (app.py, main/app/web/income_statement.py).                             *)
(*                                                                         *)
(* Text is a sequence of one-character strings, so that strip(), lower(),  *)
(* split() and float() are computed character by character.  A grid is a   *)
(* sequence of rows, a row a sequence of cells; Python's 0-based row r and *)
(* column c are the TLA+ indices r+1 and c+1.                              *)
(***************************************************************************)
EXTENDS Integers, Sequences, FiniteSets, TLC

VARIABLES
    tables,      \* app_state.STATE.tables: name -> DataFrame
    status,      \* app_state.STATE.status
    excel_path,  \* app_state.STATE.excel_path
    data,        \* GlobalState._data
    call,        \* the operation invoked last
    arg,         \* its argument
    ret,         \* "pending" before it has run, then its outcome
    pre,         \* history: the tables the last operation found in the store
    config_file, \* configurator: the content of the file at _CONFIG_PATH
    defaults,    \* configurator._DEFAULTS
    threads,     \* configurator: each calling thread's position and locals
    engine       \* logic_engine.LogicEngine.GlobalState: excel_path and _data

\* the state of main/core: the configurator's and the logic engine's
corevars == <<config_file, defaults, threads, engine>>

vars == <<tables, status, excel_path, data, call, arg, ret, pre, corevars>>

----------------------------------------------------------------------------
(* Cell values: None, str, int, float (m * 10^-e, no trailing zero in the  *)
(* fraction), float NaN and float infinity.                                *)

None == [k |-> "none"]

NaN == [k |-> "nan"]

Inf(neg) == [k |-> "inf", neg |-> neg]

Text(s) == [k |-> "str", s |-> s]

IntV(v) == [k |-> "int", v |-> v]

RECURSIVE Pow10(_)
Pow10(e) == IF e = 0 THEN 1 ELSE 10 * Pow10(e - 1)

RECURSIVE Float(_, _)
Float(m, e) ==
    IF e > 0 /\ m % 10 = 0 THEN Float(m \div 10, e - 1)
    ELSE [k |-> "float", m |-> m, e |-> e]

IsStr(v) == v.k = "str"

IsNone(v) == v.k = "none"

\* value is None or (isinstance(value, float) and pd.isna(value))
IsMissing(v) == v.k = "none" \/ v.k = "nan"

----------------------------------------------------------------------------
(* str methods.                                                            *)

Whitespace == {" ", "\t"}

UpperChars == <<"A","B","C","D","E","F","G","H","I","J","K","L","M",
                "N","O","P","Q","R","S","T","U","V","W","X","Y","Z">>

LowerChars == <<"a","b","c","d","e","f","g","h","i","j","k","l","m",
                "n","o","p","q","r","s","t","u","v","w","x","y","z">>

LowerCh(ch) ==
    IF \E i \in 1..Len(UpperChars) : UpperChars[i] = ch
    THEN LowerChars[CHOOSE i \in 1..Len(UpperChars) : UpperChars[i] = ch]
    ELSE ch

Lower(s) == [i \in 1..Len(s) |-> LowerCh(s[i])]

Strip(s) ==
    LET keep == {i \in 1..Len(s) : s[i] \notin Whitespace}
    IN  IF keep = {} THEN <<>>
        ELSE SubSeq(s, CHOOSE i \in keep : \A j \in keep : i <= j,
                       CHOOSE i \in keep : \A j \in keep : i >= j)

\* s.split(): the maximal runs of non-whitespace characters, in order
RECURSIVE SplitFrom(_, _, _)
SplitFrom(s, i, word) ==
    IF i > Len(s) THEN (IF word = <<>> THEN <<>> ELSE <<word>>)
    ELSE IF s[i] \in Whitespace
         THEN (IF word = <<>> THEN <<>> ELSE <<word>>) \o SplitFrom(s, i + 1, <<>>)
         ELSE SplitFrom(s, i + 1, Append(word, s[i]))

Split(s) == SplitFrom(s, 1, <<>>)

\* sep.join(words)
RECURSIVE Join(_, _)
Join(sep, words) ==
    IF words = <<>> THEN <<>>
    ELSE IF Len(words) = 1 THEN words[1]
    ELSE words[1] \o sep \o Join(sep, Tail(words))

StartsWith(s, p) == Len(s) >= Len(p) /\ SubSeq(s, 1, Len(p)) = p

EndsWith(s, p) == Len(s) >= Len(p) /\ SubSeq(s, Len(s) - Len(p) + 1, Len(s)) = p

\* sub in s
Contains(s, sub) ==
    \E i \in 0..(Len(s) - Len(sub)) : SubSeq(s, i + 1, i + Len(sub)) = sub

\* s.replace(ch, "")
RECURSIVE Remove(_, _)
Remove(s, ch) ==
    IF s = <<>> THEN <<>>
    ELSE IF Head(s) = ch THEN Remove(Tail(s), ch)
    ELSE <<Head(s)>> \o Remove(Tail(s), ch)

----------------------------------------------------------------------------
(* str(value) and float(text).                                             *)

Digits == <<"0","1","2","3","4","5","6","7","8","9">>

IsDigit(ch) == \E i \in 1..10 : Digits[i] = ch

DigitVal(ch) == (CHOOSE i \in 1..10 : Digits[i] = ch) - 1

RECURSIVE NatStr(_)
NatStr(n) == IF n < 10 THEN <<Digits[n + 1]>>
             ELSE NatStr(n \div 10) \o <<Digits[(n % 10) + 1]>>

RECURSIVE PadZeros(_, _)
PadZeros(s, width) == IF Len(s) >= width THEN s ELSE PadZeros(<<"0">> \o s, width)

Abs(n) == IF n < 0 THEN -n ELSE n

\* str(value) of a cell value
Str(v) ==
    CASE v.k = "str"   -> v.s
      [] v.k = "none"  -> <<"N","o","n","e">>
      [] v.k = "nan"   -> <<"n","a","n">>
      [] v.k = "inf"   -> (IF v.neg THEN <<"-">> ELSE <<>>) \o <<"i","n","f">>
      [] v.k = "int"   -> (IF v.v < 0 THEN <<"-">> ELSE <<>>) \o NatStr(Abs(v.v))
      [] v.k = "float" ->
            (IF v.m < 0 THEN <<"-">> ELSE <<>>)
            \o NatStr(Abs(v.m) \div Pow10(v.e)) \o <<".">>
            \o (IF v.e = 0 THEN <<"0">>
                ELSE PadZeros(NatStr(Abs(v.m) % Pow10(v.e)), v.e))

RECURSIVE DigitsVal(_)
DigitsVal(s) == IF s = <<>> THEN 0
                ELSE 10 * DigitsVal(SubSeq(s, 1, Len(s) - 1)) + DigitVal(s[Len(s)])

AllDigits(s) == \A i \in 1..Len(s) : IsDigit(s[i])

ValueError == [k |-> "ValueError"]

\* float(text) for text over digits, ".", signs, letters and whitespace: the
\* literal is [sign] (digits [. [digits]] | . digits | inf | infinity | nan),
\* surrounded by optional whitespace; anything else raises ValueError.
PyFloat(s) ==
    LET t    == Strip(s)
        sgn  == t # <<>> /\ t[1] \in {"-", "+"}
        neg  == t # <<>> /\ t[1] = "-"
        body == IF sgn THEN Tail(t) ELSE t
        low  == Lower(body)
        dots == {i \in 1..Len(body) : body[i] = "."}
        ip   == IF dots = {} THEN body
                ELSE SubSeq(body, 1, (CHOOSE i \in dots : TRUE) - 1)
        fp   == IF dots = {} THEN <<>>
                ELSE SubSeq(body, (CHOOSE i \in dots : TRUE) + 1, Len(body))
        mant == DigitsVal(ip \o fp)
    IN  IF low = <<"n","a","n">> THEN NaN
        ELSE IF low \in {<<"i","n","f">>, <<"i","n","f","i","n","i","t","y">>}
             THEN Inf(neg)
        ELSE IF Cardinality(dots) <= 1 /\ AllDigits(ip) /\ AllDigits(fp)
                /\ Len(ip) + Len(fp) >= 1
             THEN Float(IF neg THEN -mant ELSE mant, Len(fp))
        ELSE ValueError

\* -num
Negate(x) ==
    CASE x.k = "float" -> Float(-x.m, x.e)
      [] x.k = "inf"   -> Inf(~x.neg)
      [] OTHER         -> x

----------------------------------------------------------------------------
(* The cell normalizers of the handlers.                                   *)

Norm(v) ==
    IF IsMissing(v) THEN <<>>
    ELSE Join(<<" ">>, Split(Lower(Strip(Str(v)))))

CleanCell(v) ==
    IF IsMissing(v) THEN None
    ELSE IF IsStr(v)
         THEN LET s == Strip(v.s)
              IN  IF s = <<>> \/ s = <<"-">> THEN None ELSE Text(s)
    ELSE v

\* _parse_numeric with "or" for "and" in the test for surrounding parentheses
ParseNumericEitherParen(v) ==
    IF IsNone(v) THEN None
    ELSE IF v.k = "int" THEN Float(v.v, 0)
    ELSE IF v.k \in {"float", "inf"} THEN v
    ELSE LET s   == Strip(Str(v))
             neg == StartsWith(s, <<"(">>) \/ EndsWith(s, <<")">>)
             s1  == IF neg THEN SubSeq(s, 2, Len(s) - 1) ELSE s
             s2  == Remove(s1, ",")
             num == PyFloat(s2)
         IN  IF s = <<>> THEN None
             ELSE IF num = ValueError THEN None
             ELSE IF neg THEN Negate(num) ELSE num

ParseNumeric(v) ==
    IF IsNone(v) THEN None
    ELSE IF v.k = "int" THEN Float(v.v, 0)
    ELSE IF v.k \in {"float", "inf"} THEN v
    ELSE LET s   == Strip(Str(v))
             neg == StartsWith(s, <<"(">>) /\ EndsWith(s, <<")">>)
             s1  == IF neg THEN SubSeq(s, 2, Len(s) - 1) ELSE s
             s2  == Remove(s1, ",")
             num == PyFloat(s2)
         IN  IF s = <<>> THEN None
             ELSE IF num = ValueError THEN None
             ELSE IF neg THEN Negate(num) ELSE num

----------------------------------------------------------------------------
(* The stores.                                                             *)

IncomeStatementKey == <<"i","n","c","o","m","e","_","s","t","a","t","e","m","e","n","t">>

ErrorKey == <<"_","e","r","r","o","r">>

Pending == [k |-> "pending"]

TableNames == {"income_statement_raw", "income_statement_details",
               "income_statement_periods"}

Absent == [k |-> "absent"]

\* pd.DataFrame()
EmptyFrame == [cols |-> <<>>, rows |-> <<>>]

\* AppState.tables = {} ; dict.get gives None for a name never set
NoTables == [n \in TableNames |-> Absent]

\* GlobalState._data = {} : a dict is a sequence of <<key, value>> pairs in
\* insertion order
EmptyDict == [k |-> "dict", items |-> <<>>]

StoreIdle ==
    /\ tables = NoTables
    /\ status = <<>>
    /\ excel_path = None
    /\ data = EmptyDict
    /\ pre = NoTables
    \* nothing of the application imports main.core.configurator: no config
    \* file is written, the module is not loaded, no thread calls it
    /\ config_file = Absent
    /\ defaults = Absent
    /\ threads = <<>>
    \* Engine.__init__: a GlobalState of its own, no path and no data
    /\ engine = [excel_path |-> None, _data |-> EmptyDict]

----------------------------------------------------------------------------
(* _parse_numeric applied to one value.                                    *)

MaxTextLen == 4

NumChars == {"1", "0", ",", ".", "(", ")", "-", " ", "N"}

NumericExamples ==
    { <<"(","1",",","2","3","4",")">>,
      <<"1",",","2","3","4",".","5">>,
      <<"N","/","A">>,
      <<"n","a","n">>,
      <<"(","n","a","n",")">>,
      <<"I","n","f","i","n","i","t","y">>,
      <<" ","(","1",",","0","0","0",".","5","0",")"," ">> }

NumericInputs ==
    {Text(s) : s \in UNION {[1..n -> NumChars] : n \in 0..MaxTextLen}}
    \cup {Text(s) : s \in NumericExamples}
    \cup {None, NaN, IntV(0), IntV(-12), Float(5, 1), Float(-1234, 0)}

InitNumeric ==
    /\ StoreIdle
    /\ call = "_parse_numeric"
    /\ arg \in NumericInputs
    /\ ret = Pending

ParseNumericCall ==
    /\ call = "_parse_numeric"
    /\ ret = Pending
    /\ ret' = ParseNumeric(arg)
    /\ UNCHANGED <<tables, status, excel_path, data, call, arg, pre, corevars>>

NextNumeric == ParseNumericCall

SpecNumeric == InitNumeric /\ [][NextNumeric]_vars

\* the text of the call, trimmed
NumS == Strip(arg.s)

NumBoth == StartsWith(NumS, <<"(">>) /\ EndsWith(NumS, <<")">>)

\* what is left to parse: the text inside the parentheses, commas removed
NumRemainder ==
    Remove(IF NumBoth THEN SubSeq(NumS, 2, Len(NumS) - 1) ELSE NumS, ",")

NumReturned == call = "_parse_numeric" /\ ret # Pending /\ IsStr(arg)

\* C6: for every text, _parse_numeric returns None when the trimmed text is
\* empty or what remains after dropping both surrounding parentheses and every
\* "," is no float literal; otherwise it returns that float, negated exactly
\* when the trimmed text starts with "(" and ends with ")".  So "(1,234)" gives
\* -1234, "1,234.5" gives 1234.5, "" and "N/A" give None, and a text with only
\* one of the two parentheses gives None.
C6_ParseNumericContract ==
    NumReturned =>
        /\ NumS = <<>> => ret = None
        /\ PyFloat(NumRemainder) = ValueError => ret = None
        /\ (NumS # <<>> /\ PyFloat(NumRemainder) # ValueError) =>
               ret = IF NumBoth THEN Negate(PyFloat(NumRemainder))
                     ELSE PyFloat(NumRemainder)
        /\ (StartsWith(NumS, <<"(">>) # EndsWith(NumS, <<")">>)) => ret = None
        /\ arg.s = <<"(","1",",","2","3","4",")">> =>
               ret = [k |-> "float", m |-> -1234, e |-> 0]
        /\ arg.s = <<"1",",","2","3","4",".","5">> =>
               ret = [k |-> "float", m |-> 12345, e |-> 1]
        /\ arg.s = <<>> => ret = None
        /\ arg.s = <<"N","/","A">> => ret = None

\* a parenthesised text with a thousands separator has been parsed to a
\* negative number
C6_Witness ==
    /\ NumReturned
    /\ NumBoth
    /\ Contains(arg.s, <<",">>)
    /\ ret.k = "float"
    /\ ret.m < 0

----------------------------------------------------------------------------
(* Grids (pandas DataFrames read with header=None).                        *)

NRows(raw) == Len(raw)

\* raw.shape[1]
NCols(raw) == IF raw = <<>> THEN 0 ELSE Len(raw[1])

\* raw.iat[r, c]
At(raw, r, c) == raw[r + 1][c + 1]

AnchorText == <<"i","n","c","o","m","e"," ","s","t","a","t","e","m","e","n","t">>

IsAnchor(v) == Norm(v) = AnchorText

ScanCols == 12

NotFound == None

\* a single row-major pass over the first 12 columns, without the column-0 pass
RECURSIVE WideScanOnly(_, _, _)
WideScanOnly(raw, i, j) ==
    IF i >= NRows(raw) THEN NotFound
    ELSE IF j >= (IF NCols(raw) < ScanCols THEN NCols(raw) ELSE ScanCols)
         THEN WideScanOnly(raw, i + 1, 0)
    ELSE IF IsAnchor(At(raw, i, j)) THEN IntV(i)
    ELSE WideScanOnly(raw, i, j + 1)

\* the second pass over every column instead of the first 12
RECURSIVE WideScanAllCols(_, _, _)
WideScanAllCols(raw, i, j) ==
    IF i >= NRows(raw) THEN NotFound
    ELSE IF j >= NCols(raw) THEN WideScanAllCols(raw, i + 1, 0)
    ELSE IF IsAnchor(At(raw, i, j)) THEN IntV(i)
    ELSE WideScanAllCols(raw, i, j + 1)

\* for i in range(len(raw)): for j in range(min(raw.shape[1], 12)): ...
RECURSIVE WideScan(_, _, _)
WideScan(raw, i, j) ==
    IF i >= NRows(raw) THEN NotFound
    ELSE IF j >= (IF NCols(raw) < ScanCols THEN NCols(raw) ELSE ScanCols)
         THEN WideScan(raw, i + 1, 0)
    ELSE IF IsAnchor(At(raw, i, j)) THEN IntV(i)
    ELSE WideScan(raw, i, j + 1)

\* for i in range(len(raw)): if _norm(raw.iat[i, 0]) == "income statement"
RECURSIVE FirstColScan(_, _, _)
FirstColScan(raw, i, wide) ==
    IF i >= NRows(raw) THEN wide
    ELSE IF IsAnchor(At(raw, i, 0)) THEN IntV(i)
    ELSE FirstColScan(raw, i + 1, wide)

FindStartWideFirst(raw) == WideScanOnly(raw, 0, 0)

FindStartAllCols(raw) == FirstColScan(raw, 0, WideScanAllCols(raw, 0, 0))

FindIncomeStatementStart(raw) == FirstColScan(raw, 0, WideScan(raw, 0, 0))

----------------------------------------------------------------------------
(* _find_income_statement_start applied to one grid: an empty grid of      *)
(* LocRows x LocCols cells with up to two cells filled in.                 *)

LocRows == 3

LocCols == 14

LocTexts ==
    { NaN,
      Text(<<"I","n","c","o","m","e"," ","S","t","a","t","e","m","e","n","t">>),
      Text(<<" "," ","I","N","C","O","M","E"," ","\t"," ","s","t","a","t","e","m","e","n","t"," ">>),
      Text(<<"I","n","c","o","m","e"," ","S","t","a","t","e","m","e","n","t","s">>) }

LocPositions == (0..(LocRows - 1)) \X (0..(LocCols - 1))

LocGrid(p1, t1, p2, t2) ==
    [r \in 1..LocRows |->
        [c \in 1..LocCols |->
            IF <<r - 1, c - 1>> = p1 THEN t1
            ELSE IF <<r - 1, c - 1>> = p2 THEN t2
            ELSE NaN]]

LocateGrids ==
    {LocGrid(p1, t1, p2, t2) :
        p1 \in LocPositions, t1 \in LocTexts, p2 \in LocPositions, t2 \in LocTexts}

InitLocate ==
    /\ StoreIdle
    /\ call = "_find_income_statement_start"
    /\ arg \in LocateGrids
    /\ ret = Pending

FindStartCall ==
    /\ call = "_find_income_statement_start"
    /\ ret = Pending
    /\ ret' = FindIncomeStatementStart(arg)
    /\ UNCHANGED <<tables, status, excel_path, data, call, arg, pre, corevars>>

NextLocate == FindStartCall

SpecLocate == InitLocate /\ [][NextLocate]_vars

LocReturned == call = "_find_income_statement_start" /\ ret # Pending

\* the rows whose column-0 cell is an anchor
AnchorRowsCol0 == {r \in 0..(NRows(arg) - 1) : IsAnchor(At(arg, r, 0))}

\* the anchor cells in the columns lo..hi
AnchorCells(lo, hi) ==
    {p \in (0..(NRows(arg) - 1)) \X (0..(NCols(arg) - 1)) :
        p[2] >= lo /\ p[2] <= hi /\ IsAnchor(At(arg, p[1], p[2]))}

\* C1: when some column-0 cell normalizes to "income statement", the result is
\* the smallest row index of such a cell, whatever the other columns hold.
C1_Col0AnchorWins ==
    (LocReturned /\ AnchorRowsCol0 # {}) =>
        /\ ret.k = "int"
        /\ ret.v \in AnchorRowsCol0
        /\ \A r \in AnchorRowsCol0 : ret.v <= r

\* an anchor in column 0, another anchor in another column on an earlier row
C1_Witness ==
    /\ LocReturned
    /\ ret.k = "int"
    /\ ret.v \in AnchorRowsCol0
    /\ \E p \in AnchorCells(1, NCols(arg) - 1) : p[1] < ret.v

\* C2: with no anchor in column 0, the result is the row of the first anchor
\* cell of columns 1..11 in row-major order, and None when there is none there
\* (in particular when anchors exist only in columns 12 and beyond).
C2_WideScanFirst12 ==
    (LocReturned /\ AnchorRowsCol0 = {}) =>
        LET hits == AnchorCells(1, ScanCols - 1)
        IN  IF hits = {} THEN ret = None
            ELSE /\ ret.k = "int"
                 /\ \E p \in hits :
                       /\ p[1] = ret.v
                       /\ \A q \in hits :
                             p[1] < q[1] \/ (p[1] = q[1] /\ p[2] <= q[2])

\* no anchor in column 0, one in column 12 or beyond on an earlier row than the
\* anchor of columns 1..11 that is returned
C2_Witness ==
    /\ LocReturned
    /\ AnchorRowsCol0 = {}
    /\ ret.k = "int"
    /\ \E p \in AnchorCells(ScanCols, NCols(arg) - 1) : p[1] < ret.v

\* no anchor in columns 0..11, one beyond: not found
C2_WitnessBeyond ==
    /\ LocReturned
    /\ AnchorCells(0, ScanCols - 1) = {}
    /\ AnchorCells(ScanCols, NCols(arg) - 1) # {}
    /\ ret = None

----------------------------------------------------------------------------
(* Dicts: a dict is its <<key, value>> pairs in insertion order.           *)

Dict(items) == [k |-> "dict", items |-> items]

IsDict(v) == v.k = "dict"

DictHas(d, key) == \E i \in 1..Len(d.items) : d.items[i][1] = key

\* d.get(key, default)
DictGet(d, key, default) ==
    IF DictHas(d, key)
    THEN d.items[CHOOSE i \in 1..Len(d.items) : d.items[i][1] = key][2]
    ELSE default

\* d[key] = value: an existing key keeps its place
DictSet(d, key, value) ==
    IF DictHas(d, key)
    THEN Dict([i \in 1..Len(d.items) |->
                 IF d.items[i][1] = key THEN <<key, value>> ELSE d.items[i]])
    ELSE Dict(Append(d.items, <<key, value>>))

\* list(d.keys())
DictKeys(d) == [i \in 1..Len(d.items) |-> d.items[i][1]]

----------------------------------------------------------------------------
(* Period labels and the column-to-period map.                             *)

\* bool(value) of a cleaned cell
Truthy(v) ==
    CASE v.k = "none"  -> FALSE
      [] v.k = "str"   -> v.s # <<>>
      [] v.k = "int"   -> v.v # 0
      [] v.k = "float" -> v.m # 0
      [] OTHER         -> TRUE

\* a or b
PyOr(a, b) == IF Truthy(a) THEN a ELSE b

\* _build_period_labels without the early return for a missing second header
\* row: a header row outside the grid reads as empty cells
BuildPeriodLabelsNoReturn(raw, start_row) ==
    [c \in 1..NCols(raw) |->
        IF c = 1 THEN None
        ELSE LET top == IF start_row + 1 < NRows(raw)
                        THEN CleanCell(At(raw, start_row + 1, c - 1)) ELSE None
                 bot == IF start_row + 2 < NRows(raw)
                        THEN CleanCell(At(raw, start_row + 2, c - 1)) ELSE None
             IN  IF Truthy(top) /\ Truthy(bot)
                 THEN Text(Str(top) \o <<" ">> \o Str(bot))
                 ELSE IF Truthy(PyOr(top, bot))
                      THEN Text(Str(PyOr(top, bot)))
                      ELSE None]

\* labels[c] for the 0-based column c is BuildPeriodLabels(raw, start_row)[c + 1]
BuildPeriodLabels(raw, start_row) ==
    LET r1 == start_row + 1
        r2 == start_row + 2
    IN  IF r2 >= NRows(raw) THEN [c \in 1..NCols(raw) |-> None]
        ELSE [c \in 1..NCols(raw) |->
                IF c = 1 THEN None
                ELSE LET top == CleanCell(At(raw, r1, c - 1))
                         bot == CleanCell(At(raw, r2, c - 1))
                     IN  IF Truthy(top) /\ Truthy(bot)
                         THEN Text(Str(top) \o <<" ">> \o Str(bot))
                         ELSE IF Truthy(PyOr(top, bot))
                              THEN Text(Str(PyOr(top, bot)))
                              ELSE None]

\* col_to_period: 0-based column -> period, for the labelled columns >= 1
ColToPeriod(period_labels) ==
    LET cs == {c \in 1..(Len(period_labels) - 1) :
                  /\ period_labels[c + 1] # None
                  /\ Strip(Str(period_labels[c + 1])) # <<>>}
    IN  [c \in cs |-> Strip(Str(period_labels[c + 1]))]

InSeq(x, seq) == \E i \in 1..Len(seq) : seq[i] = x

\* the periods in ascending column order
RECURSIVE PeriodsAscending(_, _, _, _)
PeriodsAscending(col_to_period, c, last, periods) ==
    IF c > last THEN periods
    ELSE IF c \in DOMAIN col_to_period /\ ~InSeq(col_to_period[c], periods)
         THEN PeriodsAscending(col_to_period, c + 1, last,
                               Append(periods, col_to_period[c]))
    ELSE PeriodsAscending(col_to_period, c + 1, last, periods)

\* for c in sorted(col_to_period.keys(), reverse=True): append p if not seen
RECURSIVE PeriodsFrom(_, _, _)
PeriodsFrom(col_to_period, c, periods) ==
    IF c < 1 THEN periods
    ELSE IF c \in DOMAIN col_to_period /\ ~InSeq(col_to_period[c], periods)
         THEN PeriodsFrom(col_to_period, c - 1, Append(periods, col_to_period[c]))
    ELSE PeriodsFrom(col_to_period, c - 1, periods)

ExtractPeriodsLeftFirst(period_labels) ==
    [periods |-> PeriodsAscending(ColToPeriod(period_labels), 1,
                                  Len(period_labels) - 1, <<>>),
     col_to_period |-> ColToPeriod(period_labels)]

ExtractPeriodsAndColmap(period_labels) ==
    [periods |-> PeriodsFrom(ColToPeriod(period_labels),
                             Len(period_labels) - 1, <<>>),
     col_to_period |-> ColToPeriod(period_labels)]

----------------------------------------------------------------------------
(* Workbooks and sheet selection.  A workbook is [filename, sheets], a     *)
(* sheet [name, grid].                                                     *)

SheetNames(wb) == [i \in 1..Len(wb.sheets) |-> wb.sheets[i].name]

RECURSIVE FilterIncome(_)
FilterIncome(names) ==
    IF names = <<>> THEN <<>>
    ELSE IF Contains(Lower(Head(names)), <<"i","n","c","o","m","e">>)
         THEN <<Head(names)>> \o FilterIncome(Tail(names))
    ELSE FilterIncome(Tail(names))

\* the first sheet, whatever its name
SelectFirstSheet(names) == names[1]

\* sheet_candidates[0] if sheet_candidates else xl.sheet_names[0]; the caller
\* has checked that there is a sheet
SelectSheet(names) ==
    IF FilterIncome(names) # <<>> THEN FilterIncome(names)[1] ELSE names[1]

\* pd.read_excel(xl, sheet_name=sheet_name, header=None): the first sheet of
\* that name
ReadSheet(wb, sheet_name) ==
    wb.sheets[CHOOSE i \in 1..Len(wb.sheets) :
                 /\ wb.sheets[i].name = sheet_name
                 /\ \A j \in 1..(i - 1) : wb.sheets[j].name # sheet_name].grid

SkipLabels ==
    { <<"f","o","r"," ","t","h","e"," ","f","i","s","c","a","l"," ",
        "p","e","r","i","o","d"," ","e","n","d","i","n","g">>,
      <<"c","u","r","r","e","n","c","y">> }

ErrorMessage(sheet_name) ==
    <<"C","o","u","l","d"," ","n","o","t"," ","f","i","n","d"," ","'",
      "I","n","c","o","m","e"," ","S","t","a","t","e","m","e","n","t","'",
      " ","i","n"," ","'">> \o sheet_name \o <<"'">>

\* the label of row r as the row loop sees it
RowLabel(raw, r) == CleanCell(At(raw, r, 0))

\* the skip test on the lower-cased label, whitespace runs not collapsed
RowKeptLowerOnly(raw, r) ==
    /\ Norm(RowLabel(raw, r)) # <<>>
    /\ Lower(Strip(Str(RowLabel(raw, r)))) \notin SkipLabels
    /\ Strip(Str(RowLabel(raw, r))) # <<>>

\* the row passes the two "continue" tests on its label
RowKept(raw, r) ==
    /\ Norm(RowLabel(raw, r)) # <<>>
    /\ Norm(RowLabel(raw, r)) \notin SkipLabels
    /\ Strip(Str(RowLabel(raw, r))) # <<>>

LineItem(raw, r) == Strip(Str(RowLabel(raw, r)))

----------------------------------------------------------------------------
(* handlers/income_statement_table.py: the long-form parser.               *)

RawColumns == <<"line_item", "period", "value", "value_numeric", "col_index">>

Record(raw, r, c, col_to_period) ==
    [line_item     |-> LineItem(raw, r),
     period        |-> col_to_period[c],
     value         |-> CleanCell(At(raw, r, c)),
     value_numeric |-> ParseNumeric(CleanCell(At(raw, r, c))),
     col_index     |-> c]

\* the column loop left at the first value that does not parse
RECURSIVE RowRecordsStopOnFailure(_, _, _, _)
RowRecordsStopOnFailure(raw, r, c, col_to_period) ==
    IF c >= NCols(raw) THEN <<>>
    ELSE IF c \notin DOMAIN col_to_period
         THEN RowRecordsStopOnFailure(raw, r, c + 1, col_to_period)
    ELSE IF CleanCell(At(raw, r, c)) = None
         THEN RowRecordsStopOnFailure(raw, r, c + 1, col_to_period)
    ELSE IF ParseNumeric(CleanCell(At(raw, r, c))) = None THEN <<>>
    ELSE <<Record(raw, r, c, col_to_period)>>
         \o RowRecordsStopOnFailure(raw, r, c + 1, col_to_period)

\* the column loop without the test for an empty cell
RECURSIVE RowRecordsKeepEmpty(_, _, _, _)
RowRecordsKeepEmpty(raw, r, c, col_to_period) ==
    IF c >= NCols(raw) THEN <<>>
    ELSE IF c \notin DOMAIN col_to_period
         THEN RowRecordsKeepEmpty(raw, r, c + 1, col_to_period)
    ELSE <<Record(raw, r, c, col_to_period)>>
         \o RowRecordsKeepEmpty(raw, r, c + 1, col_to_period)

\* for c in range(1, raw.shape[1]) of one row
RECURSIVE RowRecords(_, _, _, _)
RowRecords(raw, r, c, col_to_period) ==
    IF c >= NCols(raw) THEN <<>>
    ELSE IF c \notin DOMAIN col_to_period
         THEN RowRecords(raw, r, c + 1, col_to_period)
    ELSE IF CleanCell(At(raw, r, c)) = None
         THEN RowRecords(raw, r, c + 1, col_to_period)
    ELSE <<Record(raw, r, c, col_to_period)>>
         \o RowRecords(raw, r, c + 1, col_to_period)

\* for r in range(start_row + 3, len(raw))
RECURSIVE Records(_, _, _)
Records(raw, r, col_to_period) ==
    IF r >= NRows(raw) THEN <<>>
    ELSE IF ~RowKept(raw, r) THEN Records(raw, r + 1, col_to_period)
    ELSE RowRecords(raw, r, 1, col_to_period) \o Records(raw, r + 1, col_to_period)

\* line_item_seen
LineItemsSeen(raw, start_row) ==
    {LineItem(raw, r) : r \in {q \in (start_row + 3)..(NRows(raw) - 1) : RowKept(raw, q)}}

DetailsRows(sheet_name, periods, raw, start_row, records) ==
    << [key |-> "sheet_name", value |-> Text(sheet_name)],
       [key |-> "periods",
        value |-> Text(Join(<<",", " ">>, periods))],
       [key |-> "most_recent_period",
        value |-> Text(IF periods # <<>> THEN periods[1] ELSE <<>>)],
       [key |-> "period_count", value |-> IntV(Len(periods))],
       [key |-> "line_item_count",
        value |-> IntV(Cardinality(LineItemsSeen(raw, start_row)))],
       [key |-> "data_points", value |-> IntV(Len(records))] >>

\* set_table that keeps a table already stored under the name
SetTableIfAbsent(tabs, name, df) ==
    IF tabs[name] = Absent THEN [tabs EXCEPT ![name] = df] ELSE tabs

\* set_table(name, df)
SetTable(tabs, name, df) == [tabs EXCEPT ![name] = df]

\* the three set_table calls of one run
StoreTables(tabs, raw_table, details_table, periods_table) ==
    SetTable(SetTable(SetTable(tabs, "income_statement_raw", raw_table),
                      "income_statement_details", details_table),
             "income_statement_periods", periods_table)

\* parse_income_statement_tables_from_path on the workbook wb with the store
\* holding tabs: [raised, tables]
ParseTables(tabs, wb) ==
    IF wb.sheets = <<>> THEN [raised |-> "IndexError", tables |-> tabs]
    ELSE
    LET sheet_name == SelectSheet(SheetNames(wb))
        raw        == ReadSheet(wb, sheet_name)
        start_row  == FindIncomeStatementStart(raw)
    IN  IF start_row = NotFound
        THEN [raised |-> "",
              tables |-> StoreTables(tabs, EmptyFrame,
                  [cols |-> <<"key", "value">>,
                   rows |-> <<[key |-> "error",
                               value |-> Text(ErrorMessage(sheet_name))]>>],
                  EmptyFrame)]
        ELSE
        LET pc      == ExtractPeriodsAndColmap(BuildPeriodLabels(raw, start_row.v))
            records == Records(raw, start_row.v + 3, pc.col_to_period)
        IN  [raised |-> "",
             tables |-> StoreTables(tabs,
                 [cols |-> RawColumns, rows |-> records],
                 [cols |-> <<"key", "value">>,
                  rows |-> DetailsRows(sheet_name, pc.periods, raw,
                                       start_row.v, records)],
                 [cols |-> <<"period">>,
                  rows |-> [i \in 1..Len(pc.periods) |-> [period |-> pc.periods[i]]]])]

----------------------------------------------------------------------------
(* handlers/income_statement.py: the nested-dict parser.                   *)

\* GlobalState.insert_data(index, data)
InsertData(d, index, value) == DictSet(d, index, value)

\* the pre-created period dicts, rightmost column first
RECURSIVE PeriodDicts(_, _, _)
PeriodDicts(col_to_period, c, income_statement) ==
    IF c < 1 THEN income_statement
    ELSE IF c \in DOMAIN col_to_period
            /\ ~DictHas(income_statement, col_to_period[c])
         THEN PeriodDicts(col_to_period, c - 1,
                  DictSet(income_statement, col_to_period[c], Dict(<<>>)))
    ELSE PeriodDicts(col_to_period, c - 1, income_statement)

\* num if num is not None else cell
ValueToStore(cell) ==
    IF ParseNumeric(cell) # None THEN ParseNumeric(cell) ELSE cell

\* for c, period in col_to_period.items() of one row
RECURSIVE RowEntries(_, _, _, _, _)
RowEntries(raw, r, c, col_to_period, income_statement) ==
    IF c >= NCols(raw) THEN income_statement
    ELSE IF c \notin DOMAIN col_to_period
         THEN RowEntries(raw, r, c + 1, col_to_period, income_statement)
    ELSE IF CleanCell(At(raw, r, c)) = None
         THEN RowEntries(raw, r, c + 1, col_to_period, income_statement)
    ELSE LET period == col_to_period[c]
             pd0    == DictGet(income_statement, period, Dict(<<>>))
         IN  RowEntries(raw, r, c + 1, col_to_period,
                 DictSet(income_statement, period,
                     DictSet(pd0, LineItem(raw, r),
                             ValueToStore(CleanCell(At(raw, r, c))))))

RECURSIVE Entries(_, _, _, _)
Entries(raw, r, col_to_period, income_statement) ==
    IF r >= NRows(raw) THEN income_statement
    ELSE IF ~RowKept(raw, r) THEN Entries(raw, r + 1, col_to_period, income_statement)
    ELSE Entries(raw, r + 1, col_to_period,
                 RowEntries(raw, r, 1, col_to_period, income_statement))

\* parse_income_statement_tables_from_path (nested) on the workbook wb with
\* the store holding the dict d: [raised, data]
ParseNested(d, wb) ==
    IF wb.sheets = <<>> THEN [raised |-> "IndexError", data |-> d]
    ELSE
    LET sheet_name == SelectSheet(SheetNames(wb))
        raw        == ReadSheet(wb, sheet_name)
        start_row  == FindIncomeStatementStart(raw)
    IN  IF start_row = NotFound
        THEN [raised |-> "",
              data |-> InsertData(d, IncomeStatementKey,
                          Dict(<< << ErrorKey,
                                     Text(ErrorMessage(sheet_name)) >> >>))]
        ELSE
        LET col_to_period == ColToPeriod(BuildPeriodLabels(raw, start_row.v))
        IN  [raised |-> "",
             data |-> InsertData(d, IncomeStatementKey,
                         Entries(raw, start_row.v + 3, col_to_period,
                                 PeriodDicts(col_to_period, NCols(raw) - 1,
                                             Dict(<<>>))))]

----------------------------------------------------------------------------
(* GlobalState.find.                                                       *)

\* _split_path: split on ".", a backslash escapes the next character, empty
\* parts are dropped
RECURSIVE SplitPathFrom(_, _, _, _)
SplitPathFrom(path, i, buf, escaped) ==
    IF i > Len(path) THEN (IF buf = <<>> THEN <<>> ELSE <<buf>>)
    ELSE IF escaped THEN SplitPathFrom(path, i + 1, Append(buf, path[i]), FALSE)
    ELSE IF path[i] = "\\" THEN SplitPathFrom(path, i + 1, buf, TRUE)
    ELSE IF path[i] = "."
         THEN (IF buf = <<>> THEN <<>> ELSE <<buf>>)
              \o SplitPathFrom(path, i + 1, <<>>, FALSE)
    ELSE SplitPathFrom(path, i + 1, Append(buf, path[i]), FALSE)

SplitPath(path) == SplitPathFrom(path, 1, <<>>, FALSE)

NoParent == [k |-> "noparent"]

\* the walk of _resolve_parent down keys[:-1]
RECURSIVE Descend(_, _)
Descend(cur, keys) ==
    IF keys = <<>> THEN cur
    ELSE IF ~IsDict(cur) THEN NoParent
    ELSE IF ~DictHas(cur, Head(keys)) THEN NoParent
    ELSE Descend(DictGet(cur, Head(keys), None), Tail(keys))

\* _resolve_parent: the parent dict, or NoParent
ResolveParent(d, path) ==
    LET keys == SplitPath(path)
    IN  IF keys = <<>> THEN NoParent
        ELSE IF Len(keys) = 1 THEN d
        ELSE LET cur == Descend(d, SubSeq(keys, 1, Len(keys) - 1))
             IN  IF cur = NoParent \/ ~IsDict(cur) THEN NoParent ELSE cur

\* find(path, default)
Find(d, path, default) ==
    IF ResolveParent(d, path) = NoParent THEN default
    ELSE DictGet(ResolveParent(d, path),
                 SplitPath(path)[Len(SplitPath(path))], default)

----------------------------------------------------------------------------
(* What the presentation layer reads.                                      *)

\* get_table(name)
GetTable(tabs, name) == IF tabs[name] = Absent THEN EmptyFrame ELSE tabs[name]

\* df.empty
FrameEmpty(df) == df.rows = <<>> \/ df.cols = <<>>

RECURSIVE NonBlank(_)
NonBlank(strs) ==
    IF strs = <<>> THEN <<>>
    ELSE IF Strip(Head(strs)) # <<>> THEN <<Head(strs)>> \o NonBlank(Tail(strs))
    ELSE NonBlank(Tail(strs))

\* app.py _periods_list
PeriodsListApp(tabs) ==
    LET df == GetTable(tabs, "income_statement_periods")
    IN  IF FrameEmpty(df) \/ ~InSeq("period", df.cols) THEN <<>>
        ELSE NonBlank([i \in 1..Len(df.rows) |-> Strip(df.rows[i].period)])

\* the long-form records as get_table("income_statement_raw") gives them
RawRecordsApp(tabs) == GetTable(tabs, "income_statement_raw").rows

\* the value of the "error" row of income_statement_details, None without one
ErrorApp(tabs) ==
    LET df == GetTable(tabs, "income_statement_details")
        es == {i \in 1..Len(df.rows) : df.rows[i].key = "error"}
    IN  IF es = {} THEN None ELSE df.rows[CHOOSE i \in es : TRUE].value

\* web/income_statement.py _income_statement_root
IncomeStatementRoot(d) ==
    LET root == Find(d, IncomeStatementKey, Dict(<<>>))
    IN  IF IsDict(root) THEN root ELSE Dict(<<>>)

\* web/income_statement.py _periods_list
PeriodsListWeb(d) == NonBlank(DictKeys(IncomeStatementRoot(d)))

\* _coerce_numeric
CoerceNumeric(x) ==
    IF x.k = "none" \/ x = Text(<<>>) THEN None
    ELSE IF x.k = "int" THEN Float(x.v, 0)
    ELSE IF x.k \in {"float", "inf", "nan"} THEN x
    ELSE IF x.k = "str" /\ PyFloat(x.s) # ValueError THEN PyFloat(x.s)
    ELSE None

\* df.where(pd.notna(df), "") on one value
WhereNotNa(v) == IF v.k \in {"none", "nan"} THEN Text(<<>>) ELSE v

RECURSIVE PeriodRows(_, _, _)
PeriodRows(period, items, i) ==
    IF i > Len(items) THEN <<>>
    ELSE << [line_item     |-> items[i][1],
             period        |-> period,
             value         |-> WhereNotNa(items[i][2]),
             value_numeric |-> WhereNotNa(CoerceNumeric(items[i][2]))] >>
         \o PeriodRows(period, items, i + 1)

RECURSIVE LongRows(_, _)
LongRows(items, i) ==
    IF i > Len(items) THEN <<>>
    ELSE IF ~IsDict(items[i][2]) THEN LongRows(items, i + 1)
    ELSE PeriodRows(items[i][1], items[i][2].items, 1) \o LongRows(items, i + 1)

\* web/income_statement.py _raw_income_long: the rows of the frame
RawIncomeLong(d) == LongRows(IncomeStatementRoot(d).items, 1)

----------------------------------------------------------------------------
(* One run of a parser on one workbook, and one call of                    *)
(* _extract_periods_and_colmap on one list of labels.  The grids have      *)
(* three columns: optional blank row, title row, two header rows, data     *)
(* rows; or they stop short of that.                                       *)

MaxDataRows == 2

MaxLabels == 4

TxIncomeStatement == Text(<<"I","n","c","o","m","e"," ","S","t","a","t","e","m","e","n","t">>)

TxIncomeStatementLoose == Text(<<" ","i","n","c","o","m","e"," "," "," ","S","T","A","T","E","M","E","N","T">>)

TxBalanceSheet == Text(<<"B","a","l","a","n","c","e"," ","S","h","e","e","t">>)

TxFY == Text(<<"F","Y">>)

Tx22 == Text(<<"2","2">>)

TxRevenue == Text(<<"R","e","v","e","n","u","e">>)

TxGrossProfit == Text(<<"G","r","o","s","s"," "," ","P","r","o","f","i","t">>)

TxCurrency == Text(<<" ","C","U","R","R","E","N","C","Y"," ">>)

TxFiscal == Text(<<"F","o","r"," "," ","t","h","e"," ","F","i","s","c","a","l"," ","p","e","r","i","o","d"," ","E","N","D","I","N","G">>)

TxDash == Text(<<" ","-"," ">>)

Tx100 == Text(<<"1","0","0">>)

TxParen == Text(<<"(","1",",","2","3","4",")">>)

TxNA == Text(<<"N","/","A">>)

TxUSD == Text(<<"U","S","D">>)

BlankRow == <<NaN, NaN, NaN>>

AnchorRows == { <<TxIncomeStatement, NaN, NaN>>,
                <<NaN, TxIncomeStatementLoose, NaN>> }

TitleRow == <<TxBalanceSheet, NaN, NaN>>

\* the two header cells of one column
ColumnHeads == { <<NaN, NaN>>, <<TxFY, NaN>>, <<NaN, Tx22>>, <<TxFY, Tx22>> }

\* <<top row, bottom row>>
HeaderRows ==
    { << <<NaN, h1[1], h2[1]>>, <<NaN, h1[2], h2[2]>> >> :
        h1 \in ColumnHeads, h2 \in ColumnHeads \ {<<TxFY, NaN>>} }

DataRows ==
    { <<TxRevenue, Tx100, TxParen>>,
      <<TxRevenue, TxNA, IntV(120)>>,
      <<TxGrossProfit, NaN, Float(5, 1)>>,
      <<TxCurrency, TxUSD, TxUSD>>,
      <<TxFiscal, Tx100, NaN>>,
      <<TxDash, Tx100, Tx100>> }

DataSeqs == UNION {[1..n -> DataRows] : n \in 0..MaxDataRows}

\* what follows the title row: nothing, one header row, or both header rows
\* and the data rows
TailsOver(dataSeqs) ==
    {<<>>}
    \cup {<<h[1]>> : h \in HeaderRows}
    \cup {<<h[1], h[2]>> \o d : h \in HeaderRows, d \in dataSeqs}

Tails == TailsOver(DataSeqs)

ShortTails == TailsOver({<<>>} \cup {<<d>> : d \in DataRows})

\* the grids with a reachable anchor, the short ones also below a blank row
ShortFoundGrids == {<<a>> \o tail : a \in AnchorRows, tail \in ShortTails}

FoundGrids ==
    {<<a>> \o tail : a \in AnchorRows, tail \in Tails}
    \cup {<<BlankRow>> \o g : g \in ShortFoundGrids}

NotFoundGrids ==
    { <<>>, <<TitleRow>>, <<BlankRow, BlankRow>> }
    \cup {<<TitleRow, h[1], h[2], d>> : h \in HeaderRows, d \in DataRows}

SheetSheet1 == <<"S","h","e","e","t","1">>

SheetNotes == <<"N","o","t","e","s">>

SheetQ1Income == <<"Q","1"," ","I","n","c","o","m","e">>

FileName == <<"i","s",".","x","l","s","x">>

\* the grid alone in a sheet with no "income" in its name
OneSheet(g) ==
    [filename |-> FileName, sheets |-> <<[name |-> SheetSheet1, grid |-> g]>>]

\* the grid second, after a sheet that holds an anchor and is not selected
TwoSheets(g) ==
    [filename |-> FileName,
     sheets |-> <<[name |-> SheetNotes, grid |-> <<<<TxIncomeStatement, NaN, NaN>>>>],
                  [name |-> SheetQ1Income, grid |-> g]>>]

NoSheets == [filename |-> FileName, sheets |-> <<>>]

ParseWorkbooks ==
    {OneSheet(g) : g \in FoundGrids \cup NotFoundGrids}
    \cup {TwoSheets(g) : g \in ShortFoundGrids \cup NotFoundGrids}
    \cup {NoSheets}

LabelValues == { None, Text(<<"A">>), Text(<<" ", "A", " ">>), Text(<<"B">>),
                 Text(<<" ">>) }

LabelLists == UNION {[1..n -> LabelValues] : n \in 1..MaxLabels}

Raised(exc) == [k |-> "raised", exc |-> exc]

Outcome(raised) == IF raised = "" THEN None ELSE Raised(raised)

\* the table parser runs on wb
DoParseTables(wb) ==
    LET res == ParseTables(tables, wb)
    IN  /\ pre' = tables
        /\ tables' = res.tables
        /\ ret' = Outcome(res.raised)

\* the nested parser runs on wb
DoParseNested(wb) ==
    LET res == ParseNested(data, wb)
    IN  /\ pre' = tables
        /\ data' = res.data
        /\ ret' = Outcome(res.raised)

InitParse ==
    /\ StoreIdle
    /\ ret = Pending
    /\ \/ call \in {"parse_tables", "parse_nested"} /\ arg \in ParseWorkbooks
       \/ call = "_extract_periods_and_colmap" /\ arg \in LabelLists

ParseTablesCall ==
    /\ call = "parse_tables"
    /\ ret = Pending
    /\ DoParseTables(arg)
    /\ UNCHANGED <<status, excel_path, data, call, arg, corevars>>

ParseNestedCall ==
    /\ call = "parse_nested"
    /\ ret = Pending
    /\ DoParseNested(arg)
    /\ UNCHANGED <<tables, status, excel_path, call, arg, corevars>>

ExtractCall ==
    /\ call = "_extract_periods_and_colmap"
    /\ ret = Pending
    /\ ret' = ExtractPeriodsAndColmap(arg)
    /\ UNCHANGED <<tables, status, excel_path, data, call, arg, pre, corevars>>

NextParse == ParseTablesCall \/ ParseNestedCall \/ ExtractCall

SpecParse == InitParse /\ [][NextParse]_vars

----------------------------------------------------------------------------
(* Claims about one run of a parser.                                       *)

TablesParsed == call = "parse_tables" /\ ret = None

NestedParsed == call = "parse_nested" /\ ret = None

\* the sheet the run reads, its grid, the header row and the column map
ArgSheet == SelectSheet(SheetNames(arg))

ArgGrid == ReadSheet(arg, ArgSheet)

ArgStart == FindIncomeStatementStart(ArgGrid)

ArgColMap == ColToPeriod(BuildPeriodLabels(ArgGrid, ArgStart.v))

\* the anchor is nowhere in the first 12 columns of the grid
AnchorAbsent(raw) ==
    \A r \in 0..(NRows(raw) - 1) :
        \A c \in 0..(NCols(raw) - 1) : c < ScanCols => ~IsAnchor(At(raw, r, c))

Names(msg, sheet_name) == Contains(msg, <<"'">> \o sheet_name \o <<"'">>)

\* C4: when the anchor is not found in the selected sheet, the presentation
\* layer reads an empty period sequence, an empty record sequence and an error
\* message naming the sheet, from the tables and from the nested dict alike.
C4_HeaderNotFoundResult ==
    /\ (TablesParsed /\ AnchorAbsent(ArgGrid)) =>
          /\ PeriodsListApp(tables) = <<>>
          /\ RawRecordsApp(tables) = <<>>
          /\ ErrorApp(tables) # None
          /\ Names(ErrorApp(tables).s, ArgSheet)
    /\ (NestedParsed /\ AnchorAbsent(ArgGrid)) =>
          /\ PeriodsListWeb(data) = <<>>
          /\ RawIncomeLong(data) = <<>>
          /\ DictHas(IncomeStatementRoot(data), ErrorKey)
          /\ Names(DictGet(IncomeStatementRoot(data), ErrorKey, None).s, ArgSheet)

\* the tables half of C4, which the table parser satisfies
C4_TablesHalf ==
    (TablesParsed /\ AnchorAbsent(ArgGrid)) =>
        /\ PeriodsListApp(tables) = <<>>
        /\ RawRecordsApp(tables) = <<>>
        /\ ErrorApp(tables) # None
        /\ Names(ErrorApp(tables).s, ArgSheet)

\* the rows below the header block whose label is non-empty and no skip label
KeptRows ==
    {r \in (ArgStart.v + 3)..(NRows(ArgGrid) - 1) :
        /\ Norm(CleanCell(At(ArgGrid, r, 0))) # <<>>
        /\ Norm(CleanCell(At(ArgGrid, r, 0))) \notin SkipLabels}

\* the cells that must give a record
QualCells ==
    {p \in KeptRows \X (DOMAIN ArgColMap) : CleanCell(At(ArgGrid, p[1], p[2])) # None}

Before(p, q) == p[1] < q[1] \/ (p[1] = q[1] /\ p[2] <= q[2])

\* a set of cells as a sequence, top to bottom and left to right
RECURSIVE InScanOrder(_)
InScanOrder(cells) ==
    IF cells = {} THEN <<>>
    ELSE LET first == CHOOSE p \in cells : \A q \in cells : Before(p, q)
         IN  <<first>> \o InScanOrder(cells \ {first})

CellLabel(p) == Strip(Str(CleanCell(At(ArgGrid, p[1], 0))))

\* C10: with a located header, the long-form records are, in order, the cells
\* (r, c) with r >= start_row + 3 top to bottom and c in the column map left to
\* right whose row label is non-empty and no skip label and whose cleaned value
\* is not none: one record per such cell with the row's label, the column's
\* period, the cleaned value and col_index = c, and no other record.
C10_RecordsAreQualifyingCells ==
    (TablesParsed /\ ArgStart # NotFound) =>
        LET cells == InScanOrder(QualCells)
            rows  == RawRecordsApp(tables)
        IN  /\ Len(rows) = Len(cells)
            /\ \A i \in 1..Len(cells) :
                  /\ rows[i].line_item = CellLabel(cells[i])
                  /\ rows[i].period = ArgColMap[cells[i][2]]
                  /\ rows[i].value = CleanCell(At(ArgGrid, cells[i][1], cells[i][2]))
                  /\ rows[i].col_index = cells[i][2]

\* two kept rows, two mapped columns and a missing cell among the four cells:
\* three records
C10_Witness ==
    /\ TablesParsed
    /\ ArgStart # NotFound
    /\ Cardinality(DOMAIN ArgColMap) = 2
    /\ Cardinality(KeptRows) = 2
    /\ Len(RawRecordsApp(tables)) = 3
    /\ Cardinality(QualCells) < 2 * Cardinality(KeptRows)

\* C9: every long-form record has value_numeric = _parse_numeric(value); a cell
\* whose value does not parse still gives its record, with the cleaned value
\* and no value_numeric, and so does every qualifying cell after it.
C9_NumericMatchesValue ==
    (TablesParsed /\ ArgStart # NotFound) =>
        LET rows == RawRecordsApp(tables)
        IN  /\ \A i \in 1..Len(rows) :
                  rows[i].value_numeric = ParseNumeric(rows[i].value)
            /\ \A p \in QualCells :
                  \E i \in 1..Len(rows) :
                      /\ rows[i].line_item = CellLabel(p)
                      /\ rows[i].col_index = p[2]
                      /\ rows[i].value = CleanCell(At(ArgGrid, p[1], p[2]))
                      /\ rows[i].value_numeric
                            = ParseNumeric(CleanCell(At(ArgGrid, p[1], p[2])))

\* a record without value_numeric followed by records with one, in the same
\* row and in a later row
C9_Witness ==
    /\ TablesParsed
    /\ ArgStart # NotFound
    /\ LET rows == RawRecordsApp(tables)
       IN  \E i, j, l \in 1..Len(rows) :
              /\ i < j /\ j < l
              /\ rows[i].value_numeric = None
              /\ rows[i].value # None
              /\ rows[j].value_numeric # None
              /\ rows[j].line_item = rows[i].line_item
              /\ rows[l].value_numeric # None
              /\ rows[l].line_item # rows[i].line_item

\* C5: no record of the tables and no entry of the nested dict has a line item
\* that normalizes (trim, lower-case, whitespace collapse) to "currency" or
\* "for the fiscal period ending".
C5_SkipLabelsNeverEmitted ==
    /\ TablesParsed =>
          \A i \in 1..Len(RawRecordsApp(tables)) :
              Norm(Text(RawRecordsApp(tables)[i].line_item)) \notin SkipLabels
    /\ NestedParsed =>
          \A i \in 1..Len(RawIncomeLong(data)) :
              Norm(Text(RawIncomeLong(data)[i].line_item)) \notin SkipLabels

\* the rows below the header block whose label normalizes to a skip label
\* without being written like one, with a value in a mapped column
SkippedRowsWithValues ==
    {r \in (ArgStart.v + 3)..(NRows(ArgGrid) - 1) :
        /\ Norm(At(ArgGrid, r, 0)) \in SkipLabels
        /\ Str(At(ArgGrid, r, 0)) \notin SkipLabels
        /\ \E c \in DOMAIN ArgColMap : CleanCell(At(ArgGrid, r, c)) # None}

\* the nested parser has stored entries from a grid with such a row
C5_Witness ==
    /\ NestedParsed
    /\ ArgStart # NotFound
    /\ SkippedRowsWithValues # {}
    /\ RawIncomeLong(data) # <<>>

ExtractReturned == call = "_extract_periods_and_colmap" /\ ret # Pending

\* the labelled columns of the list of labels arg, and their trimmed labels
LabelledCols ==
    {c \in 1..(Len(arg) - 1) : arg[c + 1] # None /\ Strip(arg[c + 1].s) # <<>>}

TrimmedLabel(c) == Strip(arg[c + 1].s)

\* the rightmost column with the label p
LastCol(p) ==
    CHOOSE c \in LabelledCols :
        TrimmedLabel(c) = p /\ \A d \in LabelledCols : TrimmedLabel(d) = p => d <= c

NoDuplicates(seq) == \A i, j \in 1..Len(seq) : seq[i] = seq[j] => i = j

\* C3: the period sequence is the distinct non-empty trimmed labels of the
\* columns >= 1 in descending column order, first occurrence kept: it has no
\* duplicate, it holds exactly the periods of the column map, a period whose
\* rightmost column is further right comes first; and every record of a parse
\* has its period in the stored period sequence.
C3_PeriodsDistinctDescending ==
    /\ ExtractReturned =>
          /\ DOMAIN ret.col_to_period = LabelledCols
          /\ \A c \in LabelledCols : ret.col_to_period[c] = TrimmedLabel(c)
          /\ NoDuplicates(ret.periods)
          /\ {ret.periods[i] : i \in 1..Len(ret.periods)}
                = {TrimmedLabel(c) : c \in LabelledCols}
          /\ \A i, j \in 1..Len(ret.periods) :
                i < j => LastCol(ret.periods[i]) > LastCol(ret.periods[j])
    /\ (TablesParsed /\ ArgStart # NotFound) =>
          /\ NoDuplicates(PeriodsListApp(tables))
          /\ \A c \in DOMAIN ArgColMap : InSeq(ArgColMap[c], PeriodsListApp(tables))
          /\ \A i \in 1..Len(RawRecordsApp(tables)) :
                InSeq(RawRecordsApp(tables)[i].period, PeriodsListApp(tables))

\* a label that two columns carry and another label to their left: two
\* periods from three labelled columns
C3_Witness ==
    /\ ExtractReturned
    /\ Cardinality(LabelledCols) = 3
    /\ Len(ret.periods) = 2
    /\ \E c \in LabelledCols : TrimmedLabel(c) # arg[c + 1].s
    /\ LastCol(ret.periods[2]) = 1

----------------------------------------------------------------------------
(* _best_metric applied to one per-period table and one alias list.        *)

MaxMetricRows == 2

MetricColumns == <<"line_item", "value", "value_numeric">>

\* any(n in li for n in needles)
AnyIn(needles, li) == \E i \in 1..Len(needles) : Contains(li, needles[i])

\* the loop of _best_metric from row i on
RECURSIVE BestMetricFrom(_, _, _)
BestMetricFrom(rows, i, needles) ==
    IF i > Len(rows) THEN None
    ELSE IF AnyIn(needles, Lower(Str(Text(rows[i].line_item))))
         THEN LET vn == rows[i].value_numeric
              IN  IF vn = None \/ vn = Text(<<>>) THEN None
                  ELSE IF vn.k = "int" THEN Float(vn.v, 0)
                  ELSE IF vn.k = "str"
                       THEN (IF PyFloat(vn.s) = ValueError THEN None ELSE PyFloat(vn.s))
                  ELSE vn
    ELSE BestMetricFrom(rows, i + 1, needles)

\* _best_metric(statement_df, needles)
BestMetric(statement_df, needles) ==
    IF statement_df = None \/ FrameEmpty(statement_df) THEN None
    ELSE IF ~InSeq("line_item", statement_df.cols) THEN None
    ELSE BestMetricFrom(statement_df.rows, 1, needles)

MetricLabels ==
    { <<"G","r","o","s","s"," ","P","r","o","f","i","t"," ","(","A","d","j",".",")">>,
      <<"G","r","o","s","s"," "," ","P","r","o","f","i","t">>,
      <<"T","o","t","a","l"," ","R","e","v","e","n","u","e","s">>,
      <<"C","o","s","t"," ","O","f"," ","G","o","o","d","s"," ","S","o","l","d">> }

\* value_numeric as the per-period table holds it: a float, or "" for none
MetricValues == { Float(5, 1), Float(-1234, 0), Text(<<>>) }

MetricRows ==
    { [line_item |-> l, value |-> Text(<<"x">>), value_numeric |-> v] :
        l \in MetricLabels, v \in MetricValues }

NeedleGrossProfit == <<"g","r","o","s","s"," ","p","r","o","f","i","t">>

NeedleRevenue == <<"r","e","v","e","n","u","e">>

NeedleSales == <<"s","a","l","e","s">>

MetricNeedles ==
    { <<NeedleGrossProfit>>, <<NeedleRevenue, NeedleSales>>,
      <<NeedleSales, NeedleGrossProfit>> }

MetricInputs ==
    { [df |-> [cols |-> MetricColumns, rows |-> rows], needles |-> n] :
        rows \in UNION {[1..k -> MetricRows] : k \in 0..MaxMetricRows},
        n \in MetricNeedles }

InitMetric ==
    /\ StoreIdle
    /\ call = "_best_metric"
    /\ arg \in MetricInputs
    /\ ret = Pending

BestMetricCall ==
    /\ call = "_best_metric"
    /\ ret = Pending
    /\ ret' = BestMetric(arg.df, arg.needles)
    /\ UNCHANGED <<tables, status, excel_path, data, call, arg, pre, corevars>>

NextMetric == BestMetricCall

SpecMetric == InitMetric /\ [][NextMetric]_vars

MetricReturned == call = "_best_metric" /\ ret # Pending

\* the rows whose normalized label (lower case, trimmed, whitespace runs
\* collapsed) contains an alias
NormMatches ==
    {i \in 1..Len(arg.df.rows) :
        AnyIn(arg.needles, Norm(Text(arg.df.rows[i].line_item)))}

\* the rows whose lower-cased label contains an alias
LowerMatches ==
    {i \in 1..Len(arg.df.rows) :
        AnyIn(arg.needles, Lower(arg.df.rows[i].line_item))}

FirstOf(S) == CHOOSE i \in S : \A j \in S : i <= j

NumericOf(row) ==
    IF row.value_numeric = Text(<<>>) THEN None ELSE row.value_numeric

\* C8: _best_metric returns the numeric value of the first row, in stored
\* order, whose normalized label (lower case, trimmed, whitespace runs
\* collapsed to one space) contains an alias.
C8_FirstNormalizedMatch ==
    (MetricReturned /\ NormMatches # {}) =>
        ret = NumericOf(arg.df.rows[FirstOf(NormMatches)])

\* what the code does: the first row whose lower-cased label contains an alias
C8_FirstLowerCasedMatch ==
    MetricReturned =>
        IF LowerMatches = {} THEN ret = None
        ELSE ret = NumericOf(arg.df.rows[FirstOf(LowerMatches)])

----------------------------------------------------------------------------
(* The application: uploads through app.py and direct runs of the two      *)
(* parsers, in any order, on a few files.                                  *)

FileA == <<"a",".","x","l","s","x">>

FileB == <<"b",".","x","l","s","x">>

GridA ==
    << <<TxIncomeStatement, NaN, NaN>>,
       <<NaN, TxFY, NaN>>,
       <<NaN, Tx22, Tx22>>,
       <<TxRevenue, Tx100, TxParen>>,
       <<TxCurrency, TxUSD, TxUSD>>,
       <<TxGrossProfit, TxNA, Float(5, 1)>> >>

GridB ==
    << BlankRow,
       <<NaN, TxIncomeStatementLoose, NaN>>,
       <<NaN, NaN, TxFY>>,
       <<NaN, NaN, Tx22>>,
       <<TxRevenue, Tx100, IntV(120)>> >>

LifeFiles ==
    { [filename |-> FileA, sheets |-> <<[name |-> SheetSheet1, grid |-> GridA]>>],
      [filename |-> FileB,
       sheets |-> <<[name |-> SheetNotes, grid |-> GridA],
                    [name |-> SheetQ1Income, grid |-> GridB]>>],
      [filename |-> FileA,
       sheets |-> <<[name |-> SheetSheet1, grid |-> <<TitleRow, BlankRow>>]>>],
      [filename |-> FileB,
       sheets |-> <<[name |-> SheetSheet1, grid |-> <<<<TxIncomeStatement, NaN, NaN>>>>]>>],
      [filename |-> FileA, sheets |-> <<>>] }

StatusNoFile == <<"N","o"," ","f","i","l","e"," ","p","r","o","v","i","d","e","d",".">>

StatusUploaded(filename) == <<"U","p","l","o","a","d","e","d",":"," ">> \o filename

StatusComplete(filename) == StatusUploaded(filename) \o <<" ","|"," ","P","a","r","s","e"," ","c","o","m","p","l","e","t","e",".">>

\* str(e) of the exception a run raised
ExcText(exc) ==
    IF exc = "IndexError" THEN <<"l","i","s","t"," ","i","n","d","e","x"," ","o","u","t"," ","o","f"," ","r","a","n","g","e">>
    ELSE <<>>

StatusFailed(exc) == <<"P","a","r","s","e"," ","f","a","i","l","e","d",":"," ">> \o ExcText(exc)

Init ==
    /\ StoreIdle
    /\ call = "start"
    /\ arg = None
    /\ ret = None

\* an upload that leaves the stored tables in place
KeepAll(tabs) == tabs

\* clear_all(): STATE.tables.clear()
ClearAll(tabs) == NoTables

\* app.py upload_and_parse without a file
UploadNoFile ==
    /\ status' = StatusNoFile
    /\ call' = "upload_and_parse"
    /\ arg' = None
    /\ ret' = Text(<<"i","n","d","e","x",".","h","t","m","l">>)
    /\ pre' = tables
    /\ UNCHANGED <<tables, excel_path, data, corevars>>

\* app.py upload_and_parse with a file: clear_all, set_excel_path, set_status,
\* the parse, set_status
UploadAndParse ==
    \E f \in LifeFiles :
        LET res == ParseTables(ClearAll(tables), f)
        IN  /\ tables' = res.tables
            /\ excel_path' = Text(f.filename)
            /\ status' = IF res.raised = "" THEN StatusComplete(f.filename)
                         ELSE StatusFailed(res.raised)
            /\ call' = "upload_and_parse"
            /\ arg' = f
            /\ ret' = Text(<<"r","e","d","i","r","e","c","t",":"," ","i","n","c","o","m","e","_","s","t","a","t","e","m","e","n","t">>)
            /\ pre' = tables
            /\ UNCHANGED <<data, corevars>>

\* parse_income_statement_tables_from_path of income_statement_table.py
ParseTablesOp ==
    \E wb \in LifeFiles :
        /\ call' = "parse_tables"
        /\ arg' = wb
        /\ DoParseTables(wb)
        /\ UNCHANGED <<status, excel_path, data, corevars>>

\* parse_income_statement_tables_from_path of income_statement.py
ParseNestedOp ==
    \E wb \in LifeFiles :
        /\ call' = "parse_nested"
        /\ arg' = wb
        /\ DoParseNested(wb)
        /\ UNCHANGED <<tables, status, excel_path, corevars>>

Next == UploadNoFile \/ UploadAndParse \/ ParseTablesOp \/ ParseNestedOp

Spec == Init /\ [][Next]_vars

\* the tables a run on arg leaves in an empty store
FreshTables == ParseTables(NoTables, arg).tables

\* C7: a run of the table parser that returns leaves the period sequence and
\* the record sequence that a run on the same workbook leaves in an empty
\* store, order included, whatever the store held before: two runs on the same
\* workbook read the same.
C7_ParseIndependentOfStore ==
    TablesParsed =>
        /\ PeriodsListApp(tables) = PeriodsListApp(FreshTables)
        /\ RawRecordsApp(tables) = RawRecordsApp(FreshTables)

\* the second of two runs on the same workbook: the store held this
\* workbook's tables, with periods and records, when the run began
C7_Witness ==
    /\ TablesParsed
    /\ pre = FreshTables
    /\ PeriodsListApp(tables) # <<>>
    /\ RawRecordsApp(tables) # <<>>

\* a run over the tables of another workbook
C7_WitnessOtherStore ==
    /\ TablesParsed
    /\ RawRecordsApp(pre) # <<>>
    /\ RawRecordsApp(pre) # RawRecordsApp(tables)
    /\ RawRecordsApp(tables) # <<>>

\* an upload with a file has been handled
Uploaded == call = "upload_and_parse" /\ arg # None

\* C16: after every upload_and_parse with a file, whether the parse stored a
\* statement, stored the header-not-found error or raised, each of the three
\* tables read through get_table is the one a parse of that file alone gives:
\* nothing of an earlier upload is readable, and after a parse that raised
\* all three tables read empty.
C16_UploadReplacesTables ==
    Uploaded =>
        /\ \A n \in TableNames : GetTable(tables, n) = GetTable(FreshTables, n)
        /\ arg.sheets = <<>> => \A n \in TableNames : FrameEmpty(GetTable(tables, n))

\* an upload whose parse raised, after an upload that stored records
C16_Witness ==
    /\ Uploaded
    /\ arg.sheets = <<>>
    /\ status = StatusFailed("IndexError")
    /\ RawRecordsApp(pre) # <<>>

\* an upload that stored records, after an upload that stored other records
C16_WitnessReplaced ==
    /\ Uploaded
    /\ RawRecordsApp(tables) # <<>>
    /\ RawRecordsApp(pre) # <<>>
    /\ RawRecordsApp(pre) # RawRecordsApp(tables)

----------------------------------------------------------------------------
(* Sheet selection: one run of a parser on a workbook of up to MaxSheets   *)
(* sheets.  Every sheet holds its own name as the label of its data row,   *)
(* so that the sheet that was read shows in what the run stores.           *)

MaxSheets == 3

SheetIncomeStmt == <<"I","N","C","O","M","E"," ","S","T","M","T">>

SheetNameSet == {SheetSheet1, SheetNotes, SheetQ1Income, SheetIncomeStmt}

\* the lists of distinct sheet names
SheetNameLists ==
    {ns \in UNION {[1..n -> SheetNameSet] : n \in 0..MaxSheets} :
        \A i, j \in 1..Len(ns) : ns[i] = ns[j] => i = j}

SheetGrid(name, found) ==
    IF found
    THEN << <<TxIncomeStatement, NaN, NaN>>,
            <<NaN, TxFY, NaN>>,
            <<NaN, Tx22, NaN>>,
            <<Text(name), Tx100, NaN>> >>
    ELSE <<TitleRow>>

SheetWorkbooks ==
    { [filename |-> FileName,
       sheets |-> [i \in 1..Len(ns) |->
                     [name |-> ns[i], grid |-> SheetGrid(ns[i], found)]]] :
        ns \in SheetNameLists, found \in BOOLEAN }

InitSheets ==
    /\ StoreIdle
    /\ ret = Pending
    /\ call \in {"parse_tables", "parse_nested"}
    /\ arg \in SheetWorkbooks

NextSheets == ParseTablesCall \/ ParseNestedCall

SpecSheets == InitSheets /\ [][NextSheets]_vars

\* the value of the row of income_statement_details with the key, None
\* without such a row
DetailApp(tabs, key) ==
    LET df == GetTable(tabs, "income_statement_details")
        ks == {i \in 1..Len(df.rows) : df.rows[i].key = key}
    IN  IF ks = {} THEN None ELSE df.rows[CHOOSE i \in ks : TRUE].value

HasIncome(name) ==
    \E i \in 1..Len(name) :
        i + 5 <= Len(name) /\ Lower(SubSeq(name, i, i + 5)) = <<"i","n","c","o","m","e">>

\* the sheet the run has to read
ExpectedSheet(names) ==
    LET hits == {i \in 1..Len(names) : HasIncome(names[i])}
    IN  IF hits = {} THEN names[1]
        ELSE names[CHOOSE i \in hits : \A j \in hits : i <= j]

ArgFound == \E i \in 1..Len(arg.sheets) : arg.sheets[i].grid # <<TitleRow>>

\* C11: with at least one sheet, both parsers read the first sheet whose
\* lower-cased name contains "income", or the first sheet when no name does:
\* its name is in the summary or in the error message, and its rows are the
\* ones stored.  With no sheet the run raises and leaves both stores as they
\* were.
C11_SheetSelection ==
    (call \in {"parse_tables", "parse_nested"} /\ ret # Pending) =>
        IF arg.sheets = <<>>
        THEN /\ ret.k = "raised"
             /\ tables = pre
             /\ data = EmptyDict
        ELSE LET want == ExpectedSheet(SheetNames(arg))
             IN  /\ ret = None
                 /\ (call = "parse_tables" /\ ArgFound) =>
                       /\ DetailApp(tables, "sheet_name") = Text(want)
                       /\ Len(RawRecordsApp(tables)) = 1
                       /\ RawRecordsApp(tables)[1].line_item = want
                 /\ (call = "parse_tables" /\ ~ArgFound) =>
                       Names(ErrorApp(tables).s, want)
                 /\ (call = "parse_nested" /\ ArgFound) =>
                       /\ Len(RawIncomeLong(data)) = 1
                       /\ RawIncomeLong(data)[1].line_item = want
                 /\ (call = "parse_nested" /\ ~ArgFound) =>
                       Names(DictGet(IncomeStatementRoot(data), ErrorKey, None).s, want)

\* three sheets, the first without "income" in its name and the two after it
\* with: the second was read
C11_Witness ==
    /\ call = "parse_tables"
    /\ ret = None
    /\ Len(arg.sheets) = 3
    /\ ~HasIncome(arg.sheets[1].name)
    /\ HasIncome(arg.sheets[2].name)
    /\ HasIncome(arg.sheets[3].name)
    /\ DetailApp(tables, "sheet_name") = Text(arg.sheets[2].name)

\* a workbook without a sheet: the run raised and stored nothing
C11_WitnessNoSheet ==
    /\ call \in {"parse_tables", "parse_nested"}
    /\ ret # Pending
    /\ arg.sheets = <<>>
    /\ ret.k = "raised"

----------------------------------------------------------------------------
(* _build_period_labels applied to one grid of three columns: up to        *)
(* MaxLeadRows blank rows, the anchor row, and below it both header rows,  *)
(* the top one alone, or nothing.                                          *)

MaxLeadRows == 1

TxPadded22 == Text(<<" ","2","2"," ">>)

\* what a header cell of a period column may hold
HeadCells == { NaN, TxFY, TxPadded22, TxDash, IntV(0), Float(0, 0), IntV(2022) }

\* what the header rows may hold in column 0
HeadCells0 == { NaN, TxFY }

HeadRows == { <<c0, c1, c2>> : c0 \in HeadCells0, c1 \in HeadCells, c2 \in HeadCells }

LeadRows == UNION {[1..n -> {BlankRow}] : n \in 0..MaxLeadRows}

LabelGrids ==
    { lead \o <<<<TxIncomeStatement, NaN, NaN>>>> \o rows :
        lead \in LeadRows,
        rows \in {<<>>} \cup {<<top>> : top \in HeadRows}
                 \cup {<<top, bot>> : top \in HeadRows, bot \in HeadRows} }

InitLabels ==
    /\ StoreIdle
    /\ call = "_build_period_labels"
    /\ \E raw \in LabelGrids :
          arg = [raw |-> raw, start_row |-> FindIncomeStatementStart(raw).v]
    /\ ret = Pending

BuildLabelsCall ==
    /\ call = "_build_period_labels"
    /\ ret = Pending
    /\ ret' = BuildPeriodLabels(arg.raw, arg.start_row)
    /\ UNCHANGED <<tables, status, excel_path, data, call, arg, pre, corevars>>

NextLabels == BuildLabelsCall

SpecLabels == InitLabels /\ [][NextLabels]_vars

\* the call has returned and both header rows are inside the grid
LabelsBuilt ==
    /\ call = "_build_period_labels"
    /\ ret # Pending
    /\ arg.start_row + 2 < NRows(arg.raw)

HeadTop(c) == CleanCell(At(arg.raw, arg.start_row + 1, c))

HeadBottom(c) == CleanCell(At(arg.raw, arg.start_row + 2, c))

\* C12: with both header rows inside the grid, the label of a column c >= 1
\* is "top bottom" when both cleaned header cells are present, the string of
\* the one that is present when only one is, and none only when both are
\* none, a numeric 0 counting as present; column 0 has no label.
C12_LabelFromPresentCells ==
    LabelsBuilt =>
        /\ ret[1] = None
        /\ \A c \in 1..(NCols(arg.raw) - 1) :
              ret[c + 1] =
                 IF HeadTop(c) # None /\ HeadBottom(c) # None
                 THEN Text(Str(HeadTop(c)) \o <<" ">> \o Str(HeadBottom(c)))
                 ELSE IF HeadTop(c) # None THEN Text(Str(HeadTop(c)))
                 ELSE IF HeadBottom(c) # None THEN Text(Str(HeadBottom(c)))
                 ELSE None

\* a cleaned header cell that counts in _build_period_labels: present and not
\* a zero
Counted(v) == v # None /\ v \notin {IntV(0), Float(0, 0)}

\* what the code does: the rule of C12 with "present" read as "present and
\* not zero"
C12_LabelFromNonZeroCells ==
    LabelsBuilt =>
        /\ ret[1] = None
        /\ \A c \in 1..(NCols(arg.raw) - 1) :
              ret[c + 1] =
                 IF Counted(HeadTop(c)) /\ Counted(HeadBottom(c))
                 THEN Text(Str(HeadTop(c)) \o <<" ">> \o Str(HeadBottom(c)))
                 ELSE IF Counted(HeadTop(c)) THEN Text(Str(HeadTop(c)))
                 ELSE IF Counted(HeadBottom(c)) THEN Text(Str(HeadBottom(c)))
                 ELSE None

----------------------------------------------------------------------------
(* _clean_cell applied to one cell.                                        *)

MaxCellLen == 4

CellChars == {" ", "-", "a", "A"}

CleanInputs ==
    {Text(s) : s \in UNION {[1..n -> CellChars] : n \in 0..MaxCellLen}}
    \cup {None, NaN, IntV(0), IntV(-3), Float(0, 0), Float(5, 1)}

InitClean ==
    /\ StoreIdle
    /\ call = "_clean_cell"
    /\ arg \in CleanInputs
    /\ ret = Pending

CleanCellCall ==
    /\ call = "_clean_cell"
    /\ ret = Pending
    /\ ret' = CleanCell(arg)
    /\ UNCHANGED <<tables, status, excel_path, data, call, arg, pre, corevars>>

NextClean == CleanCellCall

SpecClean == InitClean /\ [][NextClean]_vars

Cleaned == call = "_clean_cell" /\ ret # Pending

\* the cell is empty, or text that is "" or "-" once trimmed
CellBlank ==
    \/ arg \in {None, NaN}
    \/ IsStr(arg) /\ Strip(arg.s) \in {<<>>, <<"-">>}

\* C13: _clean_cell returns none exactly for an empty cell and for text that
\* is "" or "-" once trimmed; every other cell comes back unchanged, text with
\* its case and all of its spacing, leading and trailing spaces included.
C13_CleanCellKeepsText ==
    Cleaned =>
        /\ ret = None <=> CellBlank
        /\ ~CellBlank => ret = arg

\* what the code does: none for the same cells, numbers unchanged, text
\* trimmed at both ends with its case and inner spacing kept
C13_CleanCellTrimsText ==
    Cleaned =>
        /\ ret = None <=> CellBlank
        /\ (~CellBlank /\ ~IsStr(arg)) => ret = arg
        /\ (~CellBlank /\ IsStr(arg)) =>
              /\ IsStr(ret)
              /\ \E i, j \in 0..Len(arg.s) :
                    /\ i + Len(ret.s) + j = Len(arg.s)
                    /\ ret.s = SubSeq(arg.s, i + 1, i + Len(ret.s))
                    /\ \A n \in (1..i) \cup ((Len(arg.s) - j + 1)..Len(arg.s)) :
                          arg.s[n] = " "
                    /\ ret.s[1] # " " /\ ret.s[Len(ret.s)] # " "

----------------------------------------------------------------------------
(* The progress callback.  progress_cb is None, or a callable that raises  *)
(* on its fails_at-th invocation and returns on the others; push(msg)      *)
(* calls it without a handler around the call, so what it raises leaves    *)
(* the parser at that push.                                                *)

MaxPushes == 9

\* the push calls of the table parser before its first set_table: "Opening",
\* "Reading sheet", "Locating", and with a header "Detected periods", "Most
\* recent period" if there is a period, "Extracting", "Saving"
PushesBeforeStore(start_row, periods) ==
    IF start_row = NotFound THEN 3
    ELSE IF periods # <<>> THEN 7
    ELSE 6

\* the sheet's header row, NotFound also for a workbook without a sheet
StartRowOf(wb) ==
    IF wb.sheets = <<>> THEN NotFound
    ELSE FindIncomeStatementStart(ReadSheet(wb, SelectSheet(SheetNames(wb))))

\* how a run of the table parser ends with the callback, res being how it
\* ends without one and tabs the tables in the store before it
TablesRunWithCallback(res, tabs, start_row, progress_cb) ==
    IF progress_cb = None THEN res
    ELSE IF progress_cb.fails_at = 1
         THEN [raised |-> "CallbackError", tables |-> tabs]
    ELSE IF res.raised # "" THEN res
    ELSE IF progress_cb.fails_at
               <= PushesBeforeStore(start_row, res.tables["income_statement_periods"].rows)
         THEN [raised |-> "CallbackError", tables |-> tabs]
    ELSE IF progress_cb.fails_at
               = PushesBeforeStore(start_row, res.tables["income_statement_periods"].rows) + 1
         THEN [raised |-> "CallbackError", tables |-> res.tables]
    ELSE res

\* parse_income_statement_tables_from_path(path, progress_cb)
ParseTablesCb(tabs, wb, progress_cb) ==
    TablesRunWithCallback(ParseTables(tabs, wb), tabs, StartRowOf(wb), progress_cb)

\* the push calls of the nested parser before insert_data: "Opening",
\* "Reading sheet", "Locating", and with a header "Building period labels",
\* "Extracting", "Saving"
NestedPushesBeforeStore(start_row) == IF start_row = NotFound THEN 3 ELSE 6

\* how a run of the nested parser ends with the callback, res being how it
\* ends without one and d the dict in the store before it
NestedRunWithCallback(res, d, start_row, progress_cb) ==
    IF progress_cb = None THEN res
    ELSE IF progress_cb.fails_at = 1
         THEN [raised |-> "CallbackError", data |-> d]
    ELSE IF res.raised # "" THEN res
    ELSE IF progress_cb.fails_at <= NestedPushesBeforeStore(start_row)
         THEN [raised |-> "CallbackError", data |-> d]
    ELSE IF progress_cb.fails_at = NestedPushesBeforeStore(start_row) + 1
         THEN [raised |-> "CallbackError", data |-> res.data]
    ELSE res

\* parse_income_statement_tables_from_path(path, progress_cb), nested
ParseNestedCb(d, wb, progress_cb) ==
    NestedRunWithCallback(ParseNested(d, wb), d, StartRowOf(wb), progress_cb)

ProgressCallbacks == {None} \cup {[fails_at |-> n] : n \in 1..MaxPushes}

ProgressInputs ==
    { [filename |-> f.filename, sheets |-> f.sheets, progress_cb |-> cb] :
        f \in LifeFiles, cb \in ProgressCallbacks }

\* the run ends: what it leaves in the tables, and how it ended
EndTablesRun(res) ==
    /\ tables' = res.tables
    /\ ret' = Outcome(res.raised)

\* the run ends: what it leaves in the dict, and how it ended
EndNestedRun(res) ==
    /\ data' = res.data
    /\ ret' = Outcome(res.raised)

InitProgress ==
    /\ StoreIdle
    /\ call \in {"parse_tables_cb", "parse_nested_cb"}
    /\ arg \in ProgressInputs
    /\ ret = Pending

ParseTablesCbCall ==
    /\ call = "parse_tables_cb"
    /\ ret = Pending
    /\ pre' = tables
    /\ EndTablesRun(ParseTablesCb(tables, arg, arg.progress_cb))
    /\ UNCHANGED <<status, excel_path, data, call, arg, corevars>>

ParseNestedCbCall ==
    /\ call = "parse_nested_cb"
    /\ ret = Pending
    /\ pre' = tables
    /\ EndNestedRun(ParseNestedCb(data, arg, arg.progress_cb))
    /\ UNCHANGED <<tables, status, excel_path, call, arg, corevars>>

NextProgress == ParseTablesCbCall \/ ParseNestedCbCall

SpecProgress == InitProgress /\ [][NextProgress]_vars

\* a run with a callback on a workbook that has a sheet has ended
RanWithCallback ==
    /\ call \in {"parse_tables_cb", "parse_nested_cb"}
    /\ ret # Pending
    /\ arg.progress_cb # None
    /\ arg.sheets # <<>>

\* C14: whatever invocation of the progress callback raises, the run still
\* returns and stores what a run without a callback stores.
C14_FailingCallbackSwallowed ==
    RanWithCallback =>
        /\ ret = None
        /\ call = "parse_tables_cb" => tables = ParseTables(pre, arg).tables
        /\ call = "parse_nested_cb" => data = ParseNested(EmptyDict, arg).data

\* what the code does: a callback that raises before the store is written
\* ends the run with its exception and nothing stored
C14_FailingCallbackPropagates ==
    (RanWithCallback /\ arg.progress_cb.fails_at <= 3) =>
        /\ ret.k = "raised"
        /\ tables = pre
        /\ data = EmptyDict

----------------------------------------------------------------------------
(* Period selection in the page and plot handlers: period_idx is the text  *)
(* of the query argument, or None when it is absent.                       *)

MaxPeriods == 3

MaxIdxLen == 3

\* int(text): optional whitespace around an optional sign and digits, single
\* underscores allowed between digits; anything else raises ValueError
PyInt(s) ==
    LET t    == Strip(s)
        sgn  == t # <<>> /\ t[1] \in {"-", "+"}
        body == IF sgn THEN Tail(t) ELSE t
        ok   == /\ body # <<>>
                /\ \A i \in 1..Len(body) : IsDigit(body[i]) \/ body[i] = "_"
                /\ IsDigit(body[1]) /\ IsDigit(body[Len(body)])
                /\ \A i \in 1..(Len(body) - 1) : ~(body[i] = "_" /\ body[i + 1] = "_")
        val  == DigitsVal(Remove(body, "_"))
    IN  IF ~ok THEN ValueError
        ELSE IntV(IF t[1] = "-" THEN -val ELSE val)

\* seq[i] of Python
PyIndex(seq, i) ==
    IF i \in 0..(Len(seq) - 1) THEN seq[i + 1]
    ELSE IF i \in (-Len(seq))..(-1) THEN seq[Len(seq) + i + 1]
    ELSE Raised("IndexError")

\* selected_idx = int(period_idx_raw), 0 when it is absent or int() raises
ParsedIdx(period_idx_raw) ==
    IF period_idx_raw = None THEN 0
    ELSE IF PyInt(period_idx_raw.s) = ValueError THEN 0
    ELSE PyInt(period_idx_raw.s).v

\* the selection with the test "selected_idx < 0" left out
SelectedIdxUpperOnly(periods, period_idx_raw) ==
    IF ParsedIdx(period_idx_raw) >= Len(periods) THEN 0
    ELSE ParsedIdx(period_idx_raw)

\* selected_idx for a non-empty period list
SelectedIdx(periods, period_idx_raw) ==
    IF ParsedIdx(period_idx_raw) < 0 \/ ParsedIdx(period_idx_raw) >= Len(periods)
    THEN 0
    ELSE ParsedIdx(period_idx_raw)

\* income_statement(): what the template gets
SelectPeriodPage(periods, period_idx_raw) ==
    IF periods = <<>>
    THEN [selected_idx |-> ParsedIdx(period_idx_raw), selected_period |-> <<>>]
    ELSE [selected_idx |-> SelectedIdx(periods, period_idx_raw),
          selected_period |-> PyIndex(periods, SelectedIdx(periods, period_idx_raw))]

EmptyResponse == [k |-> "response", body |-> <<>>]

\* income_statement_plot_png(): the period that is plotted
SelectPeriodPlot(periods, period_idx_raw) ==
    IF periods = <<>> THEN EmptyResponse
    ELSE [selected_idx |-> SelectedIdx(periods, period_idx_raw),
          selected_period |-> PyIndex(periods, SelectedIdx(periods, period_idx_raw))]

PeriodNames == << <<"F","Y"," ","2","2">>, <<"F","Y"," ","2","1">>,
                  <<"F","Y"," ","2","0">>, <<"F","Y"," ","1","9">>,
                  <<"F","Y"," ","1","8">> >>

PeriodLists == {SubSeq(PeriodNames, 1, n) : n \in 0..MaxPeriods}

IdxChars == {"0", "1", "2", "3", "-", "+", " ", "_", "."}

IdxInputs ==
    {None} \cup {Text(s) : s \in UNION {[1..n -> IdxChars] : n \in 0..MaxIdxLen}}

InitSelect ==
    /\ StoreIdle
    /\ call \in {"income_statement", "income_statement_plot_png"}
    /\ \E periods \in PeriodLists, raw \in IdxInputs :
          arg = [periods |-> periods, period_idx_raw |-> raw]
    /\ ret = Pending

SelectPageCall ==
    /\ call = "income_statement"
    /\ ret = Pending
    /\ ret' = SelectPeriodPage(arg.periods, arg.period_idx_raw)
    /\ UNCHANGED <<tables, status, excel_path, data, call, arg, pre, corevars>>

SelectPlotCall ==
    /\ call = "income_statement_plot_png"
    /\ ret = Pending
    /\ ret' = SelectPeriodPlot(arg.periods, arg.period_idx_raw)
    /\ UNCHANGED <<tables, status, excel_path, data, call, arg, pre, corevars>>

NextSelect == SelectPageCall \/ SelectPlotCall

SpecSelect == InitSelect /\ [][NextSelect]_vars

\* a handler has selected a period from a non-empty list
Selected ==
    /\ call \in {"income_statement", "income_statement_plot_png"}
    /\ ret # Pending
    /\ arg.periods # <<>>

\* the index the request names: an integer, or ValueError when period_idx is
\* absent or no integer
Requested ==
    IF arg.period_idx_raw = None THEN ValueError ELSE PyInt(arg.period_idx_raw.s)

\* C15: with a non-empty period list, the page and plot handlers select a
\* valid index of the list: the requested index when period_idx is an integer
\* in 0..len(periods)-1, and 0 when it is absent, no integer, negative or too
\* large; the selected period is periods[selected index].
C15_SelectedIndexValid ==
    Selected =>
        /\ ret.selected_idx \in 0..(Len(arg.periods) - 1)
        /\ ret.selected_idx =
              IF Requested # ValueError /\ Requested.v \in 0..(Len(arg.periods) - 1)
              THEN Requested.v ELSE 0
        /\ ret.selected_period = arg.periods[ret.selected_idx + 1]

\* a request for the last period of a list of three
C15_Witness ==
    /\ Selected
    /\ Len(arg.periods) = 3
    /\ Requested = IntV(2)
    /\ ret.selected_idx = 2

\* a negative index was requested and index 0 selected
C15_WitnessNegative ==
    /\ Selected
    /\ Len(arg.periods) >= 2
    /\ Requested # ValueError
    /\ Requested.v < 0
    /\ ret.selected_idx = 0

----------------------------------------------------------------------------
(* A header row too close to the end of the grid.                          *)

\* the table parser has run on a sheet whose anchor row has no second header
\* row below it
TruncatedRun ==
    /\ call = "parse_tables"
    /\ ret # Pending
    /\ arg.sheets # <<>>
    /\ ArgStart # NotFound
    /\ ArgStart.v + 2 >= NRows(ArgGrid)

\* C17: when row start_row + 2 is outside the grid, every column label is
\* none and the table parser returns without raising: it stores no period, no
\* record and the summary rows, not the header-not-found error, also when row
\* start_row + 1 holds labels.
C17_TruncatedHeader ==
    TruncatedRun =>
        /\ ret = None
        /\ \A c \in 1..NCols(ArgGrid) :
              BuildPeriodLabels(ArgGrid, ArgStart.v)[c] = None
        /\ PeriodsListApp(tables) = <<>>
        /\ RawRecordsApp(tables) = <<>>
        /\ ErrorApp(tables) = None
        /\ DetailApp(tables, "sheet_name") = Text(ArgSheet)
        /\ DetailApp(tables, "period_count") = IntV(0)
        /\ DetailApp(tables, "data_points") = IntV(0)

\* the anchor row is followed by one row, which holds a label
C17_Witness ==
    /\ TruncatedRun
    /\ ret = None
    /\ NRows(ArgGrid) = ArgStart.v + 2
    /\ \E c \in 1..(NCols(ArgGrid) - 1) :
          CleanCell(At(ArgGrid, ArgStart.v + 1, c)) # None

\* the anchor row is the last row of the grid
C17_WitnessLastRow ==
    /\ TruncatedRun
    /\ ret = None
    /\ NRows(ArgGrid) = ArgStart.v + 1

----------------------------------------------------------------------------
(* _best_metric: a matching record without a numeric value.                *)

\* what _best_metric returns for the same table when no record matches an
\* alias
NotFoundOutcome == BestMetric(arg.df, <<>>)

\* the first record that matches an alias has no numeric value
FoundUnusable ==
    /\ MetricReturned
    /\ LowerMatches # {}
    /\ NumericOf(arg.df.rows[FirstOf(LowerMatches)]) = None

\* C18: when the first matching record has no numeric value, _best_metric
\* returns something else than it returns when no record matches, and it does
\* not return the value of a later matching record.
C18_UnusableDistinctFromNotFound ==
    FoundUnusable =>
        /\ ret # NotFoundOutcome
        /\ \A j \in LowerMatches :
              NumericOf(arg.df.rows[j]) # None => ret # NumericOf(arg.df.rows[j])

\* what the code does: it stops at the first matching record and returns
\* None, which is also what it returns when no record matches
C18_UnusableReturnsNone ==
    FoundUnusable =>
        /\ ret = None
        /\ NotFoundOutcome = None

----------------------------------------------------------------------------
(* _parse_numeric and NaN.                                                 *)

\* C19: _parse_numeric never returns NaN, for a numeric NaN and for every
\* text: the result is none or a number that is not NaN.
C19_NeverReturnsNaN ==
    (call = "_parse_numeric" /\ ret # Pending) => ret # NaN

\* what the code does: it returns NaN exactly for a numeric NaN and for text
\* that float() reads as NaN once trimmed, stripped of both surrounding
\* parentheses and of commas
C19_NaNForNaNText ==
    (call = "_parse_numeric" /\ ret # Pending) =>
        (ret = NaN <=>
            \/ arg = NaN
            \/ IsStr(arg) /\ NumS # <<>> /\ PyFloat(NumRemainder) = NaN)

----------------------------------------------------------------------------
(* The nested-dict parser and rows or columns that share a key.            *)

\* what the nested dict holds under the period of the cell's column and the
\* line item of the cell's row, None when it holds nothing there
StoredAt(p) ==
    LET period_dict == DictGet(IncomeStatementRoot(data), ArgColMap[p[2]], None)
    IN  IF IsDict(period_dict) THEN DictGet(period_dict, CellLabel(p), None)
        ELSE None

\* the cell's value as the parser stores it: the number it parses to, or the
\* cleaned cell
CellValues(p) ==
    { CleanCell(At(ArgGrid, p[1], p[2])),
      ParseNumeric(CleanCell(At(ArgGrid, p[1], p[2]))) } \ {None}

\* another cell with the same line item and the same period, later in the scan
Shadowed(p) ==
    \E q \in QualCells :
        /\ q # p
        /\ Before(p, q)
        /\ CellLabel(q) = CellLabel(p)
        /\ ArgColMap[q[2]] = ArgColMap[p[2]]

\* C20: after a run of the nested-dict parser that found the header, the
\* value of every non-empty cell in a kept row and a mapped column is in the
\* stored dict under the column's period and the row's line item, also when
\* two rows share a line item or two columns share a period.
C20_NestedLossless ==
    (NestedParsed /\ ArgStart # NotFound) =>
        \A p \in QualCells : StoredAt(p) \in CellValues(p)

\* what the code does: of the cells that share a period and a line item, the
\* last one of the scan is stored
C20_LastCellStored ==
    (NestedParsed /\ ArgStart # NotFound) =>
        \A p \in QualCells :
            ~Shadowed(p) => StoredAt(p) = ValueToStore(CleanCell(At(ArgGrid, p[1], p[2])))

----------------------------------------------------------------------------
(* main/core/configurator.py: the config file, _DEFAULTS, and the threads  *)
(* calling read_config, write_config and update_config.  The file holds    *)
(* nothing (Absent), text json.load rejects (Garbage), or the JSON value   *)
(* json.dump wrote or a person typed.                                      *)

Bool(b) == [k |-> "bool", b |-> b]

List(items) == [k |-> "list", items |-> items]

\* _DEFAULTS as the module defines it
Defaults ==
    Dict(<< << <<"a","p","p">>,
               Dict(<< << <<"p","o","r","t">>, IntV(5000) >>,
                       << <<"d","e","b","u","g","_","m","o","d","e","_","d","e","f","a","u","l","t">>, Bool(FALSE) >>,
                       << <<"m","a","x","_","p","l","o","t","_","t","i","c","k","s">>, IntV(6) >>,
                       << <<"u","p","l","o","a","d","s","_","d","i","r">>, Text(<<"s","t","o","r","a","g","e","/","u","p","l","o","a","d","s">>) >> >>) >>,
            << <<"p","a","r","s","i","n","g">>,
               Dict(<< << <<"p","r","e","f","e","r","r","e","d","_","i","n","c","o","m","e","_","s","h","e","e","t","_","k","e","y","w","o","r","d","s">>,
                          List(<< Text(<<"i","n","c","o","m","e">>), Text(<<"s","t","a","t","e","m","e","n","t">>), Text(<<"i","s">>) >>) >>,
                       << <<"p","e","r","i","o","d","_","o","r","d","e","r">>, Text(<<"m","o","s","t","_","r","e","c","e","n","t","_","f","i","r","s","t">>) >> >>) >>,
            << <<"d","i","s","p","l","a","y">>,
               Dict(<< << <<"s","h","o","w","_","v","a","l","u","e","_","n","u","m","e","r","i","c","_","c","o","l","u","m","n">>, Bool(TRUE) >> >>) >>,
            << <<"D","O","_","N","O","T","_","M","O","D","I","F","Y">>,
               Dict(<< << <<"v","e","r","s","i","o","n">>, Text(<<"0",".","1",".","0">>) >>,
                       << <<"Q","A","R","S">>, Text(<<"S","S","4","9">>) >> >>) >> >>)

\* _deep_merge(dst, src) from src's i-th item on: the dict dst has become
RECURSIVE DeepMergeFrom(_, _, _)
DeepMergeFrom(dst, src, i) ==
    IF i > Len(src.items) THEN dst
    ELSE LET k == src.items[i][1]
             v == src.items[i][2]
         IN  IF IsDict(v) /\ IsDict(DictGet(dst, k, None))
             THEN DeepMergeFrom(DictSet(dst, k, DeepMergeFrom(DictGet(dst, k, None), v, 1)),
                                src, i + 1)
             ELSE DeepMergeFrom(DictSet(dst, k, v), src, i + 1)

DeepMerge(dst, src) == DeepMergeFrom(dst, src, 1)

\* merged = deepcopy(_DEFAULTS); _deep_merge(merged, src): the merge writes
\* into the copy, so _DEFAULTS stays what it was
MergeIntoCopy(dflt, src) ==
    [merged |-> DeepMerge(dflt, src), defaults |-> dflt]

\* text that json.load rejects
Garbage == [k |-> "garbage"]

\* json.dump(v, f) of a value made of str-keyed dicts, lists, str, int and
\* bool: the file holds the JSON text of v
JsonDump(v) == [k |-> "json", v |-> v]

\* json.load(f) inside read_config's try: the value, or {} when open() or
\* json.load raised
LoadOrEmpty(file) == IF file.k = "json" THEN file.v ELSE EmptyDict

\* s.split(sep) for a one-character sep, from the i-th character on, the
\* piece read so far being piece
RECURSIVE SplitOnFrom(_, _, _, _)
SplitOnFrom(s, sep, i, piece) ==
    IF i > Len(s) THEN <<piece>>
    ELSE IF s[i] = sep
         THEN <<piece>> \o SplitOnFrom(s, sep, i + 1, <<>>)
         ELSE SplitOnFrom(s, sep, i + 1, Append(piece, s[i]))

SplitOn(s, sep) == SplitOnFrom(s, sep, 1, <<>>)

NotBlank(p) == Strip(p) # <<>>

\* [p for p in path.split(".") if p.strip()]
PathParts(path) == SelectSeq(SplitOn(path, "."), NotBlank)

\* update_config's walk and assignment: cfg after cur[parts[-1]] = value,
\* every part before the last that is missing or not a dict made {}
RECURSIVE SetAtParts(_, _, _)
SetAtParts(cur, parts, value) ==
    IF Len(parts) = 1 THEN DictSet(cur, parts[1], value)
    ELSE LET p == parts[1]
             sub == IF DictHas(cur, p) /\ IsDict(DictGet(cur, p, None))
                    THEN DictGet(cur, p, None) ELSE EmptyDict
         IN  DictSet(cur, p, SetAtParts(sub, Tail(parts), value))

\* get_config's walk: the value at parts, None where a key is missing,
\* TypeError where the walk meets a value that is no dict
RECURSIVE GetAtParts(_, _)
GetAtParts(cur, parts) ==
    IF parts = <<>> THEN cur
    ELSE IF IsDict(cur)
         THEN IF DictHas(cur, parts[1])
              THEN GetAtParts(DictGet(cur, parts[1], None), Tail(parts))
              ELSE None
         ELSE IF cur.k = "str" /\ ~Contains(cur.s, parts[1]) THEN None
         ELSE IF cur.k = "list" /\ ~InSeq(Text(parts[1]), cur.items) THEN None
         ELSE Raised("TypeError")

\* get_config(path) on the merged config cfg
GetConfig(cfg, path) ==
    IF PathParts(path) = <<>> THEN None ELSE GetAtParts(cfg, PathParts(path))

\* read_config's merge: deepcopy(_DEFAULTS) with the file's data merged in
\* when the data is a dict
ReadMerged(dflt, file) ==
    IF IsDict(LoadOrEmpty(file)) THEN MergeIntoCopy(dflt, LoadOrEmpty(file))
    ELSE [merged |-> dflt, defaults |-> dflt]

\* write_config's final_cfg: deepcopy(_DEFAULTS) with new_config merged in,
\* a new_config that is no dict taken as {}
FinalCfg(dflt, new_config) ==
    MergeIntoCopy(dflt, IF IsDict(new_config) THEN new_config ELSE EmptyDict)

NumThreads == 2

Threads == 1..NumThreads

PathAppPort == <<"a","p","p",".","p","o","r","t">>

PathShowNumeric == <<"d","i","s","p","l","a","y",".","s","h","o","w","_","v","a","l","u","e","_","n","u","m","e","r","i","c","_","c","o","l","u","m","n">>

PathApp == <<"a","p","p">>

PathUiTheme == <<"u","i",".","t","h","e","m","e">>

PathDot == <<".">>

\* the calls a thread may make
UpdateCall(path, value) ==
    [op |-> "update_config", path |-> path, value |-> value,
     pc |-> "ensure", cfg |-> None, ret |-> Pending]

ReadCall ==
    [op |-> "read_config", path |-> <<>>, value |-> None,
     pc |-> "ensure", cfg |-> None, ret |-> Pending]

WriteCall(new_config) ==
    [op |-> "write_config", path |-> <<>>, value |-> None,
     pc |-> "write", cfg |-> new_config, ret |-> Pending]

ConfigCalls ==
    { UpdateCall(PathAppPort, IntV(8080)),
      UpdateCall(PathShowNumeric, Bool(FALSE)),
      UpdateCall(PathApp, IntV(5)),
      UpdateCall(PathUiTheme, Text(<<"d","a","r","k">>)),
      UpdateCall(PathDot, IntV(1)),
      ReadCall,
      WriteCall(Dict(<< << <<"p","a","r","s","i","n","g">>,
                           Dict(<< << <<"p","e","r","i","o","d","_","o","r","d","e","r">>, Text(<<"o","l","d","e","s","t","_","f","i","r","s","t">>) >> >>) >> >>)),
      WriteCall(IntV(5)) }

\* what the file may hold before the first call: nothing, text that is not
\* JSON, a JSON number, a dict whose "app" is a number, a dict of one setting
ConfigFiles ==
    { Absent,
      Garbage,
      JsonDump(IntV(7)),
      JsonDump(Dict(<< << <<"a","p","p">>, IntV(5) >> >>)),
      JsonDump(Dict(<< << <<"a","p","p">>, Dict(<< << <<"m","a","x","_","p","l","o","t","_","t","i","c","k","s">>, IntV(9) >> >>) >> >>)) }

InitConfig ==
    /\ tables = NoTables
    /\ status = <<>>
    /\ excel_path = None
    /\ data = EmptyDict
    /\ pre = NoTables
    /\ call = "configurator"
    /\ arg = None
    /\ ret = Pending
    /\ config_file \in ConfigFiles
    /\ defaults = Defaults
    /\ threads \in [Threads -> ConfigCalls]
    /\ engine = [excel_path |-> None, _data |-> EmptyDict]

\* _ensure_file_exists: the test outside the lock and the test and write
\* inside it act as one step, since no call removes the file
EnsureFileExists(t) ==
    /\ threads[t].pc = "ensure"
    /\ config_file' = IF config_file = Absent THEN JsonDump(defaults) ELSE config_file
    /\ threads' = [threads EXCEPT ![t].pc = "read"]
    /\ UNCHANGED <<tables, status, excel_path, data, call, arg, ret, pre, defaults, engine>>

\* the thread's locals after read_config's locked read and the code that
\* follows it up to the next use of the lock: read_config returns merged;
\* update_config returns it when the path has no parts, or else sets the
\* value in it and enters write_config
AfterRead(th, merged) ==
    IF th.op = "read_config" \/ PathParts(th.path) = <<>>
    THEN [th EXCEPT !.pc = "done", !.ret = merged]
    ELSE [th EXCEPT !.pc = "write", !.cfg = SetAtParts(merged, PathParts(th.path), th.value)]

\* read_config from "with _LOCK" on
ReadConfig(t) ==
    /\ threads[t].pc = "read"
    /\ threads' = [threads EXCEPT ![t] = AfterRead(threads[t], ReadMerged(defaults, config_file).merged)]
    /\ defaults' = ReadMerged(defaults, config_file).defaults
    /\ UNCHANGED <<tables, status, excel_path, data, call, arg, ret, pre, config_file, engine>>

\* write_config: the file written under the lock, final_cfg returned
WriteConfig(t) ==
    /\ threads[t].pc = "write"
    /\ config_file' = JsonDump(FinalCfg(defaults, threads[t].cfg).merged)
    /\ threads' = [threads EXCEPT ![t].pc = "done",
                                  ![t].ret = FinalCfg(defaults, threads[t].cfg).merged]
    /\ defaults' = FinalCfg(defaults, threads[t].cfg).defaults
    /\ UNCHANGED <<tables, status, excel_path, data, call, arg, ret, pre, engine>>

NextConfig ==
    \E t \in Threads : EnsureFileExists(t) \/ ReadConfig(t) \/ WriteConfig(t)

SpecConfig == InitConfig /\ [][NextConfig]_vars

\* the calls have all returned
AllDone == \A t \in Threads : threads[t].pc = "done"

\* update_config calls whose paths name different settings, neither path
\* leading to the other's
IsPrefix(p, r) == Len(p) <= Len(r) /\ SubSeq(r, 1, Len(p)) = p

UpdatesApart(t, u) ==
    /\ t # u
    /\ threads[t].op = "update_config"
    /\ threads[u].op = "update_config"
    /\ PathParts(threads[t].path) # <<>>
    /\ PathParts(threads[u].path) # <<>>
    /\ ~IsPrefix(PathParts(threads[t].path), PathParts(threads[u].path))
    /\ ~IsPrefix(PathParts(threads[u].path), PathParts(threads[t].path))

\* the file holds the value thread t set at its path
FileHasUpdate(t) ==
    GetAtParts(LoadOrEmpty(config_file), PathParts(threads[t].path)) = threads[t].value

\* C21: when two threads have run update_config on two different dotted
\* paths and both have returned, the config file holds both new values,
\* whatever the interleaving was.
C21_NoLostUpdate ==
    \A t, u \in Threads :
        (AllDone /\ UpdatesApart(t, u)) => (FileHasUpdate(t) /\ FileHasUpdate(u))

\* C21, what the code does: the lock covers the read and the write apart,
\* not update_config as a whole, so the file holds the value of the update
\* that wrote last and may have lost the other's.
C21_OneUpdateKept ==
    \A t, u \in Threads :
        (AllDone /\ UpdatesApart(t, u) /\ NumThreads = 2) => (FileHasUpdate(t) \/ FileHasUpdate(u))

\* two updates of different settings have returned and one is lost
C21_LostUpdate ==
    \E t, u \in Threads :
        AllDone /\ UpdatesApart(t, u) /\ FileHasUpdate(t) /\ ~FileHasUpdate(u)


\* every key path of the dict dflt, from its i-th item on, is a key path of cfg
RECURSIVE HasKeyPathsFrom(_, _, _)
HasKeyPathsFrom(dflt, cfg, i) ==
    IF i > Len(dflt.items) THEN TRUE
    ELSE LET k == dflt.items[i][1]
             v == dflt.items[i][2]
         IN  /\ IsDict(cfg)
             /\ DictHas(cfg, k)
             /\ IsDict(v) => HasKeyPathsFrom(v, DictGet(cfg, k, None), 1)
             /\ HasKeyPathsFrom(dflt, cfg, i + 1)

HasKeyPaths(dflt, cfg) == HasKeyPathsFrom(dflt, cfg, 1)

\* thread t called read_config and has its result
ReadReturned(t) == threads[t].op = "read_config" /\ threads[t].pc = "done"

\* C22: whatever the config file holds, the dict read_config returns has
\* every key path of _DEFAULTS, and no call of read_config, write_config or
\* update_config changes _DEFAULTS.
C22_ReadConfigFull ==
    /\ \A t \in Threads : ReadReturned(t) => HasKeyPaths(Defaults, threads[t].ret)
    /\ defaults = Defaults

\* C22, what the code does: _DEFAULTS is never changed and read_config
\* returns a dict with every section of _DEFAULTS, but a section the file
\* gives a non-dict value for is returned as that value, its keys gone.
C22_ReadConfigSections ==
    /\ \A t \in Threads :
           ReadReturned(t) =>
               /\ IsDict(threads[t].ret)
               /\ \A i \in 1..Len(Defaults.items) :
                      /\ DictHas(threads[t].ret, Defaults.items[i][1])
                      /\ IsDict(DictGet(threads[t].ret, Defaults.items[i][1], None))
                             => HasKeyPaths(Defaults.items[i][2],
                                            DictGet(threads[t].ret, Defaults.items[i][1], None))
    /\ defaults = Defaults

\* read_config has returned a config whose "app" is the file's number
C22_SectionLost ==
    \E t \in Threads :
        /\ ReadReturned(t)
        /\ DictGet(threads[t].ret, PathApp, None) = IntV(5)


----------------------------------------------------------------------------
(* The status an upload leaves.                                            *)

TxParsing == <<" ","|"," ","P","a","r","s","i","n","g",".",".",".">>

TxParseComplete == <<"P","a","r","s","e"," ","c","o","m","p","l","e","t","e",".">>

TxParseFailed == <<"P","a","r","s","e"," ","f","a","i","l","e","d",":">>

\* C23: after upload_and_parse with a file has returned, the status is not
\* left at "... | Parsing...": it ends with "Parse complete." or starts with
\* "Parse failed:", and it ends with "Parse complete." only when the
\* extraction did not fail, that is the workbook had a sheet and the header
\* was found in the sheet read.
C23_StatusTellsOutcome ==
    Uploaded =>
        /\ ~EndsWith(status, TxParsing)
        /\ EndsWith(status, TxParseComplete) \/ StartsWith(status, TxParseFailed)
        /\ EndsWith(status, TxParseComplete) =>
               (arg.sheets # <<>> /\ ~AnchorAbsent(ArgGrid))

\* C23, what the code does: the status is "Parse failed: ..." exactly when
\* the parser raised, which a workbook without sheets makes it do; a parser
\* that returned, also one that stored the header-not-found error and
\* returned, leaves "... | Parse complete.".
C23_CompleteUnlessRaised ==
    Uploaded =>
        /\ ~EndsWith(status, TxParsing)
        /\ arg.sheets = <<>> => status = StatusFailed("IndexError")
        /\ arg.sheets # <<>> => status = StatusComplete(arg.filename)

\* an upload whose sheet has no header has left "Parse complete."
C23_CompleteWithoutHeader ==
    /\ Uploaded
    /\ arg.sheets # <<>>
    /\ AnchorAbsent(ArgGrid)
    /\ ErrorApp(tables) # None
    /\ EndsWith(status, TxParseComplete)


----------------------------------------------------------------------------
(* main/core/logic_engine.py: Engine.update_excel and Engine.parse_excel.  *)
(* The parser writes into main.globals.global_state.State, a module the    *)
(* sources do not hold: State is either the engine's GlobalState or an     *)
(* object of its own, and engine.is_State says which.  pre is the engine's *)
(* _data before the last call.                                             *)

FileC == <<"c",".","x","l","s","x">>

FileD == <<"d",".","x","l","s","x">>

FileE == <<"e",".","x","l","s","x">>

GridE ==
    << <<TxIncomeStatement, NaN, NaN>>,
       <<NaN, TxFY, TxFY>>,
       <<NaN, Tx22, IntV(2023)>>,
       <<TxGrossProfit, IntV(120), TxDash>>,
       <<TxRevenue, TxUSD, Float(5, 1)>> >>

EnginePaths == {Text(FileA), Text(FileB), Text(FileC), Text(FileD), Text(FileE)}

\* pd.ExcelFile(path): the workbook stored at the path; a.xlsx, b.xlsx and
\* e.xlsx hold statements, c.xlsx a sheet without the header, d.xlsx no
\* sheet
WorkbookAt(path) ==
    IF path = Text(FileE)
    THEN [filename |-> FileE, sheets |-> <<[name |-> SheetQ1Income, grid |-> GridE]>>]
    ELSE
    IF path = Text(FileA)
    THEN [filename |-> FileA, sheets |-> <<[name |-> SheetSheet1, grid |-> GridA]>>]
    ELSE IF path = Text(FileB)
    THEN [filename |-> FileB,
          sheets |-> <<[name |-> SheetNotes, grid |-> GridA],
                       [name |-> SheetQ1Income, grid |-> GridB]>>]
    ELSE IF path = Text(FileC)
    THEN [filename |-> FileC,
          sheets |-> <<[name |-> SheetSheet1, grid |-> <<TitleRow, BlankRow>>]>>]
    ELSE [filename |-> FileD, sheets |-> <<>>]

\* State._data
StateData == IF engine.is_State THEN engine._data ELSE data

InitEngine ==
    /\ tables = NoTables
    /\ status = <<>>
    /\ excel_path = None
    /\ data = EmptyDict
    /\ pre = EmptyDict
    /\ config_file = Absent
    /\ defaults = Absent
    /\ threads = <<>>
    /\ engine \in [excel_path : {None}, _data : {EmptyDict}, is_State : BOOLEAN]
    /\ call = "start"
    /\ arg = None
    /\ ret = None

\* Engine.update_excel(path)
UpdateExcel ==
    \E path \in EnginePaths \cup {None} :
        /\ engine' = [engine EXCEPT !.excel_path = path]
        /\ call' = "update_excel"
        /\ arg' = path
        /\ ret' = None
        /\ pre' = engine._data
        /\ UNCHANGED <<tables, status, excel_path, data, config_file, defaults, threads>>

\* parse_excel from line 33 on, res being what the parser's run gave: a run
\* that raised ends parse_excel there; after a run that returned, the
\* parser's return value, None, is inserted into the engine's state
EndParseExcel(res) ==
    IF res.raised # ""
    THEN /\ ret' = Raised(res.raised)
         /\ data' = res.data
         /\ engine' = IF engine.is_State THEN [engine EXCEPT !._data = res.data] ELSE engine
    ELSE /\ ret' = None
         /\ data' = IF engine.is_State THEN InsertData(res.data, IncomeStatementKey, None)
                    ELSE res.data
         /\ engine' = IF engine.is_State
                      THEN [engine EXCEPT !._data = InsertData(res.data, IncomeStatementKey, None)]
                      ELSE [engine EXCEPT !._data = InsertData(engine._data, IncomeStatementKey, None)]

\* Engine.parse_excel()
ParseExcel ==
    /\ call' = "parse_excel"
    /\ arg' = engine.excel_path
    /\ pre' = engine._data
    /\ IF engine.excel_path = None
       THEN /\ ret' = None
            /\ UNCHANGED <<data, engine>>
       ELSE EndParseExcel(ParseNested(StateData, WorkbookAt(engine.excel_path)))
    /\ UNCHANGED <<tables, status, excel_path, config_file, defaults, threads>>

\* web/home.py update_excel_path(new_path): update_excel, then parse_excel
\* with the path just set
EndUpdateExcelPath(new_path, res) ==
    IF res.raised # ""
    THEN /\ ret' = Raised(res.raised)
         /\ data' = res.data
         /\ engine' = IF engine.is_State
                      THEN [engine EXCEPT !.excel_path = new_path, !._data = res.data]
                      ELSE [engine EXCEPT !.excel_path = new_path]
    ELSE /\ ret' = None
         /\ data' = IF engine.is_State THEN InsertData(res.data, IncomeStatementKey, None)
                    ELSE res.data
         /\ engine' = IF engine.is_State
                      THEN [engine EXCEPT !.excel_path = new_path,
                                          !._data = InsertData(res.data, IncomeStatementKey, None)]
                      ELSE [engine EXCEPT !.excel_path = new_path,
                                          !._data = InsertData(engine._data, IncomeStatementKey, None)]

UpdateExcelPath ==
    \E new_path \in EnginePaths :
        /\ call' = "update_excel_path"
        /\ arg' = new_path
        /\ pre' = engine._data
        /\ EndUpdateExcelPath(new_path, ParseNested(StateData, WorkbookAt(new_path)))
        /\ UNCHANGED <<tables, status, excel_path, config_file, defaults, threads>>

\* web/home.py index, up to the rendering: with no path in the engine's
\* state and an Excel file in the upload directory, update_excel_path with
\* the first of the files; first is that file, or None for a directory
\* without one
Index ==
    \E first \in EnginePaths \cup {None} :
        /\ call' = "index"
        /\ pre' = engine._data
        /\ IF engine.excel_path = None /\ first # None
           THEN /\ arg' = first
                /\ EndUpdateExcelPath(first, ParseNested(StateData, WorkbookAt(first)))
           ELSE /\ arg' = None
                /\ ret' = None
                /\ UNCHANGED <<data, engine>>
        /\ UNCHANGED <<tables, status, excel_path, config_file, defaults, threads>>

NextEngine == UpdateExcel \/ ParseExcel \/ UpdateExcelPath \/ Index

SpecEngine == InitEngine /\ [][NextEngine]_vars

\* parse_excel has returned
ExcelParsed == call \in {"parse_excel", "update_excel_path", "index"} /\ ret = None

\* the workbook at the engine's path has a sheet and the header is in the
\* sheet read
ParsesWell(path) ==
    /\ WorkbookAt(path).sheets # <<>>
    /\ ~AnchorAbsent(ReadSheet(WorkbookAt(path), SelectSheet(SheetNames(WorkbookAt(path)))))

\* the nested dataset of the workbook at path: period -> line item -> value
DatasetOf(path) == DictGet(ParseNested(EmptyDict, WorkbookAt(path)).data, IncomeStatementKey, Absent)

\* C24: after update_excel(path) and parse_excel() with a path whose
\* workbook parses, the engine state's "income_statement" entry is the
\* nested dataset of that workbook and not None; parse_excel with
\* excel_path None leaves the engine state's data as it was.
C24_EngineHoldsDataset ==
    /\ (ExcelParsed /\ arg # None /\ ParsesWell(arg)) =>
           /\ DictGet(engine._data, IncomeStatementKey, Absent) # None
           /\ DictGet(engine._data, IncomeStatementKey, Absent) = DatasetOf(arg)
    /\ (ExcelParsed /\ arg = None) => engine._data = pre

\* C24, what the code does: the parser returns None, and parse_excel
\* inserts that return value, so after every parse_excel that returned with
\* a path the engine state's "income_statement" entry is None, also when
\* State is the engine's state and the parser had put the dataset there;
\* parse_excel with excel_path None leaves the data as it was.
C24_EngineHoldsNone ==
    /\ (ExcelParsed /\ arg # None) =>
           DictGet(engine._data, IncomeStatementKey, Absent) = None
    /\ (ExcelParsed /\ arg = None) => engine._data = pre

\* parse_excel has returned for a workbook with a statement, the engine's
\* state being State
C24_NoneOverDataset ==
    /\ ExcelParsed
    /\ arg = Text(FileA)
    /\ engine.is_State
    /\ DictGet(engine._data, IncomeStatementKey, Absent) = None
    /\ IsDict(DatasetOf(arg))


----------------------------------------------------------------------------
(* GlobalState.insert_data, update and find_all on one GlobalState, whose  *)
(* _data is data; pre is the _data the last call found.  Every inserted    *)
(* value is an object of its own.                                          *)

\* parent[final_key] = value, written down the keys from _data
RECURSIVE SetAtKeys(_, _, _)
SetAtKeys(cur, keys, value) ==
    IF Len(keys) = 1 THEN DictSet(cur, keys[1], value)
    ELSE DictSet(cur, keys[1], SetAtKeys(DictGet(cur, keys[1], None), Tail(keys), value))

\* update(path, value): what it returns and the _data it leaves
UpdateData(d, path, value) ==
    IF ResolveParent(d, path) = NoParent THEN [ret |-> FALSE, data |-> d]
    ELSE IF ~DictHas(ResolveParent(d, path), SplitPath(path)[Len(SplitPath(path))])
    THEN [ret |-> FALSE, data |-> d]
    ELSE [ret |-> TRUE, data |-> SetAtKeys(d, SplitPath(path), value)]

\* f"{prefix}.{k}" if prefix else str(k)
PathOf(prefix, k) == IF prefix # <<>> THEN prefix \o <<".">> \o k ELSE k

\* _find_all_recursive from the i-th item of the dict d on: the (path,
\* value) pairs appended to out
RECURSIVE FindAllRecursive(_, _, _, _)
FindAllRecursive(d, key, prefix, i) ==
    IF i > Len(d.items) THEN <<>>
    ELSE LET k == d.items[i][1]
             v == d.items[i][2]
         IN  (IF k = key THEN << <<PathOf(prefix, k), v>> >> ELSE <<>>)
             \o (IF IsDict(v) THEN FindAllRecursive(v, key, PathOf(prefix, k), 1) ELSE <<>>)
             \o FindAllRecursive(d, key, prefix, i + 1)

\* find_all(key)
FindAll(d, key) == FindAllRecursive(d, key, <<>>, 1)

MaxEntries == 2

KeyA == <<"a">>

KeyB == <<"b">>

KeyAB == <<"a",".","b">>

KeyRevenue == <<"R","e","v","e","n","u","e">>

KeyGrossProfitAdj == <<"G","r","o","s","s"," ","P","r","o","f","i","t"," ","(","A","d","j",".",")">>

KeyFY22 == <<"F","Y","2","2">>

\* period -> line item -> value, one line item with a "." in its name
DatasetAdj ==
    Dict(<< << KeyFY22,
               Dict(<< << KeyRevenue, IntV(100) >>,
                       << KeyGrossProfitAdj, Float(5, 1) >> >>) >> >>)

StateIndexes == {IncomeStatementKey, KeyA, KeyAB}

StateValues == {IntV(1), Dict(<< << KeyB, IntV(2) >> >>), DatasetAdj}

StateKeys == {KeyA, KeyB, KeyAB, KeyRevenue, KeyGrossProfitAdj}

\* paths given to update that no find_all returned
StatePaths == { <<"a">>, <<"a",".","b">>, <<"a",".","c">>, <<"i","n","c","o","m","e","_","s","t","a","t","e","m","e","n","t",".","F","Y","2","2",".","R","e","v","e","n","u","e">>,
                <<"i","n","c","o","m","e","_","s","t","a","t","e","m","e","n","t",".","F","Y","2","2",".","G","r","o","s","s"," ","P","r","o","f","i","t"," ","(","A","d","j","\\",".",")">> }

NewValue == IntV(9)

InitState ==
    /\ tables = NoTables
    /\ status = <<>>
    /\ excel_path = None
    /\ data = EmptyDict
    /\ pre = EmptyDict
    /\ config_file = Absent
    /\ defaults = Absent
    /\ threads = <<>>
    /\ engine = [excel_path |-> None, _data |-> EmptyDict]
    /\ call = "start"
    /\ arg = None
    /\ ret = None

InsertDataCall ==
    \E index \in StateIndexes, value \in StateValues :
        /\ Len(InsertData(data, index, value).items) <= MaxEntries
        /\ data' = InsertData(data, index, value)
        /\ call' = "insert_data"
        /\ arg' = [index |-> index, value |-> value]
        /\ ret' = None
        /\ pre' = data
        /\ UNCHANGED <<tables, status, excel_path, corevars>>

FindAllCall ==
    \E key \in StateKeys :
        /\ call' = "find_all"
        /\ arg' = key
        /\ ret' = FindAll(data, key)
        /\ pre' = data
        /\ UNCHANGED <<tables, status, excel_path, data, corevars>>

\* the paths the find_all calls return on d
FoundPaths(d) ==
    UNION { { FindAll(d, key)[i][1] : i \in 1..Len(FindAll(d, key)) } : key \in StateKeys }

UpdateStateCall ==
    \E path \in StatePaths \cup FoundPaths(data) :
        /\ call' = "update"
        /\ arg' = [path |-> path, value |-> NewValue]
        /\ data' = UpdateData(data, path, NewValue).data
        /\ ret' = UpdateData(data, path, NewValue).ret
        /\ pre' = data
        /\ UNCHANGED <<tables, status, excel_path, corevars>>

NextState == InsertDataCall \/ FindAllCall \/ UpdateStateCall

SpecState == InitState /\ [][NextState]_vars

\* where find_all finds its pairs: the keys from _data down to each pair,
\* in find_all's order
RECURSIVE FoundAt(_, _, _, _)
FoundAt(d, key, above, i) ==
    IF i > Len(d.items) THEN <<>>
    ELSE LET k == d.items[i][1]
             v == d.items[i][2]
         IN  (IF k = key THEN << Append(above, k) >> ELSE <<>>)
             \o (IF IsDict(v) THEN FoundAt(v, key, Append(above, k), 1) ELSE <<>>)
             \o FoundAt(d, key, above, i + 1)

\* the pairs (key, i) of pre whose find_all path is the path just updated
PairsOfPath ==
    UNION { { <<key, i>> : i \in { j \in 1..Len(FindAll(pre, key)) :
                                      FindAll(pre, key)[j][1] = arg.path } } :
            key \in StateKeys }

\* C25: every (path, value) pair find_all returns has find(path) = value,
\* and update(path, v) with the path of such a pair returns True, makes
\* find(path) return v and changes the pair's entry alone.
C25_FindAllPathsResolve ==
    /\ call = "find_all" =>
           \A i \in 1..Len(ret) : Find(data, ret[i][1], Absent) = ret[i][2]
    /\ call = "update" =>
           \A ki \in PairsOfPath :
               /\ ret = TRUE
               /\ Find(data, arg.path, Absent) = arg.value
               /\ data = SetAtKeys(pre, FoundAt(pre, ki[1], <<>>, 1)[ki[2]], arg.value)

\* a key that split_path reads as it is: not empty, no "." and no "\"
PlainKey(k) == k # <<>> /\ \A j \in 1..Len(k) : k[j] \notin {".", "\\"}

PlainKeys(keys) == \A j \in 1..Len(keys) : PlainKey(keys[j])

\* C25, what the code does: find_all joins the keys with "." and escapes
\* nothing, so its path leads back to the pair when every key on the way
\* is free of "." and "\"; the path of a pair under a key such as
\* "Gross Profit (Adj.)" is split at that dot and names no entry or another
\* entry.
C25_PlainPathsResolve ==
    /\ call = "find_all" =>
           \A i \in 1..Len(ret) :
               PlainKeys(FoundAt(data, arg, <<>>, 1)[i]) =>
                   Find(data, ret[i][1], Absent) = ret[i][2]
    /\ call = "update" =>
           \A ki \in PairsOfPath :
               PlainKeys(FoundAt(pre, ki[1], <<>>, 1)[ki[2]]) =>
                   /\ ret = TRUE
                   /\ Find(data, arg.path, Absent) = arg.value
                   /\ data = SetAtKeys(pre, FoundAt(pre, ki[1], <<>>, 1)[ki[2]], arg.value)

\* update with the path find_all gave for a top-level "a.b" has changed the
\* "b" under "a" and left the pair's entry as it was
C25_WrongEntryUpdated ==
    /\ call = "update"
    /\ arg.path = KeyAB
    /\ ret = TRUE
    /\ DictHas(pre, KeyAB)
    /\ DictGet(data, KeyAB, Absent) = DictGet(pre, KeyAB, Absent)
    /\ data # pre


====
